---- MODULE Spec2Model ----
(***************************************************************************)
(* Verification model of the AI-Tutor retrieval-augmented tutoring engine: *)
(* the ingestion orchestrator (services/ingestion.py), the policy-enforced *)
(* retrieval service (services/retrieval.py) and the self-reflective       *)
(* answer service (services/tutor.py).                                     *)
(*                                                                         *)
(* Each component has its own specification over its own variables; the    *)
(* variables of the other components stay at their initial value.          *)
(***************************************************************************)
EXTENDS Integers, Sequences, FiniteSets, TLC

(***************************************************************************)
(* Bounds of the model.                                                    *)
(***************************************************************************)
NumIngestors == 2
MaxIngestCalls == 2
MaxChunks == 2
MaxIndexed == 2
MaxTopK == 2
MaxRetrievals == 1
MaxAnswers == 1
MaxSources == 4
MaxFragments == 2
MaxTotalChunks == 5001
MaxQueryLen == 15
MaxTexts == 3
BatchSize == 2
MaxCandidates == 2
MaxRerankCalls == 2
MaxExpandCalls == 2
MaxStarts == 2
MaxDispatches == 5
MaxTime == 91
MaxBodyLen == 8

(***************************************************************************)
(* Universe of identifiers.                                                *)
(***************************************************************************)
Procs == 1..NumIngestors
\* courses that exist in the courses table
Courses == {"courseA", "courseB"}
\* a course id that no row of the courses table carries
MissingCourse == "courseX"
Uris == {"deck1.pdf", "deck2.pdf"}
\* Optional[str] session ids; None is the Python None
None == "None"
Sessions == {None, "week_1"}
\* uuid4() placeholder of IngestionMetrics.document_id: the id of no row
Placeholder == 0
\* NULL of a nullable UUID column
Null == 0
\* QueryExpansionService(max_expansions=2)
max_expansions == 2

VARIABLES
    documents,     \* rows of table documents (committed)
    chunkRows,     \* rows of table document_chunks (committed)
    points,        \* points of the Qdrant collection
    nextId,        \* next fresh uuid4 (documents and chunks draw from it)
    USE_QDRANT,    \* settings.USE_QDRANT
    ing,           \* per ingest task: position and locals of ingest()
    ingCalls,      \* number of ingest calls started so far
    completed      \* history: ids of documents whose ingest run returned success

ingVars == <<documents, chunkRows, points, nextId, USE_QDRANT, ing, ingCalls, completed>>

VARIABLES
    enrollments,   \* rows of table enrollments
    ret,           \* the retrieve() call in flight: position, request, locals
    retCalls       \* number of retrieve calls started so far

retVars == <<enrollments, ret, retCalls>>

VARIABLES
    tut,           \* the respond() / respond_stream() call in flight
    tutCalls,      \* number of answer requests started so far
    analytics      \* rows of table query_analytics (committed)

tutVars == <<tut, tutCalls, analytics>>

VARIABLES
    sel,           \* the RAGStrategySelector call: arguments and result
    emb            \* the embed_batch() call in flight: arguments, position, locals

VARIABLES
    rer,           \* the RerankerService instance: its cache and the rerank() call made
    qex,           \* the QueryExpansionService instance: its cache and the expand() call made
    app,           \* the server process, its settings and the Qdrant collection it finds
    rl,            \* the RateLimiter instance, the clock and the requests dispatched
    chk            \* the SlideAwareChunker instance and the slide it chunked

svcVars == <<rer, qex, app, rl, chk>>

fnVars == <<sel, emb, svcVars>>

vars == <<ingVars, retVars, tutVars, fnVars>>

(***************************************************************************)
(* IngestionRequest and IngestionMetrics (services/ingestion.py).          *)
(***************************************************************************)
IngestionRequest ==
    [course_id : Courses \cup {MissingCourse},
     source_uri : Uris,
     session_id : Sessions,
     assignment_allowed : BOOLEAN]

\* the requests the ingestion specifications draw from: an existing and a
\* missing course, every source_uri
IngestRequests ==
    {r \in IngestionRequest :
        /\ r.course_id \in {"courseA", MissingCourse}
        /\ r.session_id = "week_1"
        /\ r.assignment_allowed}

IdleTask ==
    [pc |-> "idle",
     req |-> [course_id |-> MissingCourse, source_uri |-> "", session_id |-> None,
              assignment_allowed |-> TRUE],
     \* metrics = IngestionMetrics(document_id=uuid.uuid4(), ..., success=False)
     metrics |-> [document_id |-> Placeholder, chunks_created |-> 0,
                  embeddings_generated |-> 0, success |-> FALSE, error |-> "none"],
     nchunks |-> 0, document |-> Placeholder, chunk_ids |-> <<>>,
     embeddings |-> 0, afterSuccess |-> FALSE]

\* query_topic of a row when the question has no word: the column is NULL
NoTopic == <<>>

\* no answer request in flight
IdleAnswer ==
    [pc |-> "idle", mode |-> "respond", nchunks |-> 0, enable_analytics |-> FALSE,
     question |-> <<>>, sources |-> 0, failedAt |-> "none",
     \* no QueryAnalytics object built yet
     row |-> [query_topic |-> NoTopic, query_length |-> 0, confidence_score |-> 0,
              sources_count |-> 0, was_hallucination_detected |-> FALSE],
     logged |-> FALSE,
     valCalls |-> 0, valDone |-> FALSE, valRaised |-> FALSE, valText |-> <<>>,
     can_answer |-> FALSE, has_course_context |-> FALSE,
     genCalls |-> 0, prompt |-> "none", fragments |-> 0,
     confidence |-> "none", confidence_score |-> 0,
     events |-> <<>>, phases |-> <<>>, outcome |-> "none"]

TutorIdle ==
    /\ tut = IdleAnswer
    /\ tutCalls = 0
    /\ analytics = {}

\* no selector call made
IdleSelector ==
    [pc |-> "idle", op |-> "none", course_type |-> "none", total_chunks |-> 0,
     query |-> <<>>, expand |-> FALSE,
     \* RAGStrategyConfig before any call: no field set
     config |-> [course_type |-> "none", total_chunks |-> 0, initial_top_k |-> 0,
                 final_top_k |-> 0, use_reranking |-> FALSE,
                 use_query_expansion |-> FALSE, use_hierarchical_filter |-> FALSE]]

SelectorIdle == sel = IdleSelector

\* no embed_batch call made
IdleEmbed ==
    [pc |-> "idle", impl |-> "none", texts |-> <<>>, i |-> 0, batch |-> <<>>,
     results |-> <<>>, fallback |-> <<>>, batchCalls |-> <<>>, itemCalls |-> <<>>]

EmbedIdle == emb = IdleEmbed

\* a RerankerService just constructed (enable_caching=True): empty cache
IdleReranker ==
    [pc |-> "idle", cache |-> {}, query |-> <<>>, chunks |-> <<>>, top_k |-> 0,
     hit |-> FALSE, result |-> <<>>, calls |-> 0]

\* a QueryExpansionService just constructed (enable_caching=True,
\* max_expansions=2): empty cache
IdleExpansion ==
    [pc |-> "idle", cache |-> {}, query |-> <<>>, hit |-> FALSE,
     generation |-> [raises |-> FALSE, fence |-> "none",
                     json |-> [type |-> "invalid", chars |-> <<>>, items |-> <<>>,
                               members |-> {}],
                     lines |-> <<>>],
     failed |-> FALSE, raised |-> "none",
     result |-> [original |-> <<>>, expansions |-> <<>>], calls |-> 0]

\* no server process running, no collection in the vector store, the
\* init script not run; checks counts the ensure_collection_exists() calls
\* of the server process since its start
IdleApp ==
    [pc |-> "stopped",
     settings |-> [PROJECT_NAME |-> "", GEMINI_API_KEY |-> "", ENV_MODE |-> "dev",
                   JWT_SECRET_KEY |-> "", JWT_ACCESS_TOKEN_EXPIRE_MINUTES |-> 0,
                   POSTGRES_SERVER |-> "", POSTGRES_DB |-> "", QDRANT_HOST |-> "",
                   EMBEDDING_DIM |-> 0, USE_LOCAL_EMBEDDINGS |-> FALSE,
                   LOCAL_EMBEDDING_DIM |-> 0],
     collection |-> [exists |-> FALSE, size |-> 0],
     found |-> [exists |-> FALSE, size |-> 0],
     checks |-> 0, served |-> {}, starts |-> 0, script |-> "none", scripts |-> 0]

\* keys the middleware derives from requests: a user id, a client address
RateLimitKeys == {"user:1", "ip:10.0.0.9"}

\* rate_limiter = RateLimiter(): no request recorded for any key; allowed
\* is the history of the requests the middleware let through, status and
\* retry_after the last response
IdleRateLimiter ==
    [now |-> 0, requests |-> [k \in RateLimitKeys |-> <<>>], allowed |-> <<>>,
     status |-> 0, retry_after |-> 0, dispatched |-> 0]

\* no chunker constructed, no slide chunked
IdleChunker ==
    [pc |-> "idle", max_chunk_chars |-> 0, min_chunk_chars |-> 0,
     include_title_in_chunk |-> TRUE, title |-> <<>>, text |-> <<>>, chunks |-> <<>>]

ServicesIdle ==
    /\ rer = IdleReranker
    /\ qex = IdleExpansion
    /\ app = IdleApp
    /\ rl = IdleRateLimiter
    /\ chk = IdleChunker

Min(a, b) == IF a < b THEN a ELSE b

\* DocumentRepository.get_by_source_uri: the rows the SELECT matches;
\* .first() returns one of them (no ORDER BY), None if there is none
DocsBySourceUri(uri) == {d \in documents : d.source_uri = uri}

\* str(uuid): the canonical text of an id, injective
Str(id) == <<"str", id>>

\* session_id or "": None and "" both become ""
OrEmpty(s) == IF s = None \/ s = "" THEN "" ELSE s

(***************************************************************************)
(* IngestionService.ingest, one action per suspension point.               *)
(***************************************************************************)
Active(p) == ing[p].pc \notin {"idle", "returned", "raised"}

\* a caller invokes ingest(request)
IngestBegin(p, r) ==
    /\ ~Active(p)
    /\ ingCalls < MaxIngestCalls
    /\ ingCalls' = ingCalls + 1
    /\ ing' = [ing EXCEPT ![p] =
                 [IdleTask EXCEPT
                    !.pc = "validate_course",
                    !.req = r,
                    !.afterSuccess =
                        \E d \in documents :
                            d.source_uri = r.source_uri /\ d.id \in completed]]
    /\ UNCHANGED <<documents, chunkRows, points, nextId, USE_QDRANT, completed>>

\* except Exception: metrics.error = str(e); metrics.success = False; raise
Raise(t) ==
    [t EXCEPT !.pc = "raised",
              !.metrics = [t.metrics EXCEPT !.success = FALSE, !.error = "failed"]]

\* 1. course = await self.course_repo.get(request.course_id)
IngestValidateCourse(p) ==
    /\ ing[p].pc = "validate_course"
    /\ ing' = [ing EXCEPT ![p] =
                 IF ing[p].req.course_id \in Courses
                 THEN [ing[p] EXCEPT !.pc = "idempotency"]
                 ELSE Raise(ing[p])]
    /\ UNCHANGED <<documents, chunkRows, points, nextId, USE_QDRANT, ingCalls, completed>>

\* the idempotency check left out: every call runs the pipeline
IdempotencyOutcome_NoSkip(t, existing) == [t EXCEPT !.pc = "parse"]

\* the outcome of step 2 for a task t; existing is what get_by_source_uri
\* returned: {} for None, {d} for the document row d
IdempotencyOutcome(t, existing) ==
    IF existing # {}
    THEN [t EXCEPT !.pc = "returned",
                   !.metrics = [t.metrics EXCEPT
                                  !.document_id = (CHOOSE d \in existing : TRUE).id,
                                  !.error = "skip",
                                  !.success = TRUE]]
    ELSE [t EXCEPT !.pc = "parse"]

\* results of .scalars().first() over the rows a SELECT matched
First(rows) == IF rows = {} THEN {{}} ELSE {{d} : d \in rows}

\* 2. existing = await self.doc_repo.get_by_source_uri(request.source_uri)
IngestIdempotencyCheck(p) ==
    /\ ing[p].pc = "idempotency"
    /\ \E existing \in First(DocsBySourceUri(ing[p].req.source_uri)) :
          ing' = [ing EXCEPT ![p] = IdempotencyOutcome(ing[p], existing)]
    /\ UNCHANGED <<documents, chunkRows, points, nextId, USE_QDRANT, ingCalls, completed>>

\* 3.-4. slides = self._parse_pdf(...); chunk_data_list = chunker.chunk_slides(...)
\* CPU-bound, no suspension point; n is the number of chunks of the deck
IngestParseAndChunk(p) ==
    /\ ing[p].pc = "parse"
    /\ \E n \in 0..MaxChunks :
         ing' = [ing EXCEPT ![p] = [ing[p] EXCEPT !.pc = "create_document", !.nchunks = n]]
    /\ UNCHANGED <<documents, chunkRows, points, nextId, USE_QDRANT, ingCalls, completed>>

\* the row BaseRepository.create adds and commits for Document
NewDocument(id, r) ==
    [id |-> id, course_id |-> r.course_id, source_uri |-> r.source_uri,
     session_id |-> r.session_id]

\* BaseRepository.create: self.db.add(db_obj); await self.db.commit()
\* the table has no constraint but the primary key
RepoCreate(table, row) == table \cup {row}

\* 5. document = await self.doc_repo.create({...})
IngestCreateDocument(p) ==
    /\ ing[p].pc = "create_document"
    /\ documents' = RepoCreate(documents, NewDocument(nextId, ing[p].req))
    /\ nextId' = nextId + 1
    /\ ing' = [ing EXCEPT ![p] =
                 [ing[p] EXCEPT !.pc = "create_chunks",
                                !.document = nextId,
                                !.metrics = [ing[p].metrics EXCEPT !.document_id = nextId]]]
    /\ UNCHANGED <<chunkRows, points, USE_QDRANT, ingCalls, completed>>

\* the row _create_chunks builds for chunk_data_list[i-1]; id is its uuid4
NewChunkRow(id, i, doc, r) ==
    [id |-> id, document_id |-> doc, course_id |-> r.course_id,
     session_id |-> r.session_id, chunk_index |-> i - 1,
     assignment_allowed |-> r.assignment_allowed, embedding_id |-> Null]

\* ids of the chunks bulk_create returns, in list order
ChunkIds(first, n) == [i \in 1..n |-> first + i - 1]

\* 6. chunks = await self._create_chunks(...): add_all, then one commit
IngestCreateChunks(p) ==
    /\ ing[p].pc = "create_chunks"
    /\ LET n == ing[p].nchunks
           ids == ChunkIds(nextId, n)
       IN  /\ chunkRows' = chunkRows \cup
                 {NewChunkRow(ids[i], i, ing[p].document, ing[p].req) : i \in 1..n}
           /\ nextId' = nextId + n
           /\ ing' = [ing EXCEPT ![p] =
                        [ing[p] EXCEPT !.pc = "embed",
                                       !.chunk_ids = ids,
                                       !.metrics = [ing[p].metrics EXCEPT !.chunks_created = n]]]
    /\ UNCHANGED <<documents, points, USE_QDRANT, ingCalls, completed>>

\* numbers of vectors embed_batch can return for n texts: the batch call's
\* zip(texts, embeddings) keeps as many as the provider sent
EmbedCounts(n) == 0..n

\* 7. embeddings = await self.embedding_service.embed_batch(texts)
IngestEmbed(p) ==
    /\ ing[p].pc = "embed"
    /\ \E m \in EmbedCounts(ing[p].nchunks) :
         ing' = [ing EXCEPT ![p] =
                   [ing[p] EXCEPT
                      !.pc = IF USE_QDRANT THEN "upsert" ELSE "finish",
                      !.embeddings = m,
                      !.metrics = [ing[p].metrics EXCEPT !.embeddings_generated = m]]]
    /\ UNCHANGED <<documents, chunkRows, points, nextId, USE_QDRANT, ingCalls, completed>>

\* payload of the point _store_vectors builds for a chunk row
PointPayload(chunk, course_id, session_id) ==
    [id |-> Str(chunk.id),
     course_id |-> Str(course_id),
     document_id |-> Str(chunk.document_id),
     chunk_id |-> Str(chunk.id),
     session_id |-> OrEmpty(session_id),
     assignment_allowed |-> chunk.assignment_allowed]

ChunkRow(id) == CHOOSE c \in chunkRows : c.id = id

\* for chunk, emb_result in zip(chunks, embeddings): the points built
StorePoints(chunks, m, course_id, session_id) ==
    {PointPayload(chunks[i], course_id, session_id) : i \in 1..Min(Len(chunks), m)}

\* client.upsert: a point replaces the point of the same id
Upsert(store, new) ==
    {q \in store : \A n \in new : n.id # q.id} \cup new

\* 8a. _store_vectors up to client.upsert(collection_name, points)
IngestUpsert(p) ==
    /\ ing[p].pc = "upsert"
    /\ points' = Upsert(points,
                        StorePoints([i \in 1..Len(ing[p].chunk_ids) |->
                                        ChunkRow(ing[p].chunk_ids[i])],
                                    ing[p].embeddings,
                                    ing[p].req.course_id, ing[p].req.session_id))
    /\ ing' = [ing EXCEPT ![p] = [ing[p] EXCEPT !.pc = "update_ids"]]
    /\ UNCHANGED <<documents, chunkRows, nextId, USE_QDRANT, ingCalls, completed>>

\* DocumentChunkRepository.update_embedding_ids for the ids zip() paired
UpdateEmbeddingIds(rows, ids) ==
    {IF c.id \in ids THEN [c EXCEPT !.embedding_id = c.id] ELSE c : c \in rows}

\* 8b. await self.chunk_repo.update_embedding_ids(chunk_id_to_embedding_id)
IngestUpdateEmbeddingIds(p) ==
    /\ ing[p].pc = "update_ids"
    /\ LET k == Min(Len(ing[p].chunk_ids), ing[p].embeddings)
       IN  chunkRows' = UpdateEmbeddingIds(chunkRows, {ing[p].chunk_ids[i] : i \in 1..k})
    /\ ing' = [ing EXCEPT ![p] = [ing[p] EXCEPT !.pc = "finish"]]
    /\ UNCHANGED <<documents, points, nextId, USE_QDRANT, ingCalls, completed>>

\* metrics.success = True; return metrics
IngestFinish(p) ==
    /\ ing[p].pc = "finish"
    /\ ing' = [ing EXCEPT ![p] =
                 [ing[p] EXCEPT !.pc = "returned",
                                !.metrics = [ing[p].metrics EXCEPT !.success = TRUE]]]
    /\ completed' = completed \cup {ing[p].document}
    /\ UNCHANGED <<documents, chunkRows, points, nextId, USE_QDRANT, ingCalls>>

\* the awaited calls of ingest() that can raise: the parser, the database
\* commits, the embedding provider and the vector store
FailSteps == {"parse", "create_document", "create_chunks", "embed", "upsert", "update_ids"}

\* the awaited call raises; nothing it would have written is written
IngestFail(p) ==
    /\ ing[p].pc \in FailSteps
    /\ ing' = [ing EXCEPT ![p] = Raise(ing[p])]
    /\ UNCHANGED <<documents, chunkRows, points, nextId, USE_QDRANT, ingCalls, completed>>

IngestStep(p) ==
    \/ IngestValidateCourse(p)
    \/ IngestIdempotencyCheck(p)
    \/ IngestParseAndChunk(p)
    \/ IngestCreateDocument(p)
    \/ IngestCreateChunks(p)
    \/ IngestEmbed(p)
    \/ IngestUpsert(p)
    \/ IngestUpdateEmbeddingIds(p)
    \/ IngestFinish(p)
    \/ IngestFail(p)

IngestIdle ==
    /\ documents = {}
    /\ chunkRows = {}
    /\ points = {}
    /\ nextId = 1
    /\ USE_QDRANT \in BOOLEAN
    /\ ing = [p \in Procs |-> IdleTask]
    /\ ingCalls = 0
    /\ completed = {}

(***************************************************************************)
(* RetrievalService (services/retrieval.py).                               *)
(***************************************************************************)
Students == {"stu1", "stu2"}

\* query texts, as tuples of characters
Chars == {" ", "q"}
Queries == {<<>>, <<" ">>, <<"q">>}

IsSpace(c) == c \in {" ", "\n"}

\* str.strip(): leading and trailing whitespace removed
RECURSIVE LStrip(_)
LStrip(q) == IF q # <<>> /\ IsSpace(Head(q)) THEN LStrip(Tail(q)) ELSE q
RECURSIVE RStrip(_)
RStrip(q) ==
    IF q # <<>> /\ IsSpace(q[Len(q)]) THEN RStrip(SubSeq(q, 1, Len(q) - 1)) ELSE q
Strip(q) == RStrip(LStrip(q))

RetrievalRequest ==
    [student_id : Students,
     course_id : Courses,
     query : Queries,
     top_k : 1..MaxTopK,
     exclude_assignments : BOOLEAN,
     session_filter : Sessions]

IdleRetrieval ==
    [pc |-> "idle",
     req |-> [student_id |-> "stu1", course_id |-> "courseA", query |-> <<>>,
              top_k |-> 1, exclude_assignments |-> TRUE, session_filter |-> None],
     outcome |-> "none",
     embedCalls |-> 0, searchCalls |-> 0, filter |-> <<>>, hits |-> {},
     chunks |-> {}, limit |-> 0, calls |-> <<>>]

RetrievalIdle ==
    /\ enrollments = {}
    /\ ret = IdleRetrieval
    /\ retCalls = 0

\* any enrollment of the course grants access, whoever the student is
IsEnrolled_AnyStudent(student_id, course_id) ==
    \E e \in enrollments : e.course_id = course_id

\* EnrollmentRepository.is_enrolled: a row with this student and this course
IsEnrolled(student_id, course_id) ==
    \E e \in enrollments : e.student_id = student_id /\ e.course_id = course_id

\* the filter without the tenant condition
BuildFilter_NoCourse(course_id, exclude_assignments, session_filter) ==
    (IF exclude_assignments
     THEN <<[key |-> "assignment_allowed", value |-> TRUE]>> ELSE <<>>)
    \o (IF session_filter \notin {None, ""}
        THEN <<[key |-> "session_id", value |-> session_filter]>> ELSE <<>>)

\* the filter without the assignment-safety condition
BuildFilter_NoAssignment(course_id, exclude_assignments, session_filter) ==
    <<[key |-> "course_id", value |-> Str(course_id)]>>
    \o (IF session_filter \notin {None, ""}
        THEN <<[key |-> "session_id", value |-> session_filter]>> ELSE <<>>)

\* RetrievalService._build_filter: the list of must conditions
BuildFilter(course_id, exclude_assignments, session_filter) ==
    <<[key |-> "course_id", value |-> Str(course_id)]>>
    \o (IF exclude_assignments
        THEN <<[key |-> "assignment_allowed", value |-> TRUE]>> ELSE <<>>)
    \o (IF session_filter \notin {None, ""}
        THEN <<[key |-> "session_id", value |-> session_filter]>> ELSE <<>>)

\* Filter(must=...): a point matches when its payload meets every condition
Matches(pt, filter) == \A i \in 1..Len(filter) : pt[filter[i].key] = filter[i].value

\* client.search(query_vector, query_filter, limit): the store answers with
\* the `limit` nearest points among those that match the filter; which ones
\* are nearest depends on the vectors
SearchResults(store, filter, limit) ==
    LET matching == {pt \in store : Matches(pt, filter)}
    IN  {H \in SUBSET matching : Cardinality(H) = Min(limit, Cardinality(matching))}

\* RetrievedChunk(chunk_id=hit.payload.get("chunk_id", ...), ...)
ToRetrievedChunk(hit) ==
    [chunk_id |-> hit.chunk_id, document_id |-> hit.document_id,
     session_id |-> hit.session_id]

RetrieveEnded == ret.pc \in {"returned", "raised"}

\* the caller has the result or the exception; the service and the locals of
\* the call are dropped, the next request builds a new RetrievalService
RetrieveRelease ==
    /\ RetrieveEnded
    /\ ret' = IdleRetrieval
    /\ UNCHANGED <<enrollments, retCalls, ingVars, tutVars, fnVars>>

\* a caller invokes retrieve(request)
RetrieveBegin(r) ==
    /\ ret.pc = "idle"
    /\ retCalls < MaxRetrievals
    /\ retCalls' = retCalls + 1
    /\ ret' = [IdleRetrieval EXCEPT !.pc = "validate", !.req = r]
    /\ UNCHANGED <<enrollments, ingVars, tutVars, fnVars>>

\* if not request.query or not request.query.strip(): raise ValueError
RetrieveValidate ==
    /\ ret.pc = "validate"
    /\ ret' = IF (ret.req.query = <<>> \/ Strip(ret.req.query) = <<>>)
              THEN [ret EXCEPT !.pc = "raised", !.outcome = "invalid_input"]
              ELSE [ret EXCEPT !.pc = "enrollment"]
    /\ UNCHANGED <<enrollments, retCalls, ingVars, tutVars, fnVars>>

\* 1. is_enrolled = await self.enrollment_repo.is_enrolled(...)
RetrieveCheckEnrollment ==
    /\ ret.pc = "enrollment"
    /\ ret' = IF ~IsEnrolled(ret.req.student_id, ret.req.course_id)
              THEN [ret EXCEPT !.pc = "raised", !.outcome = "access_denied",
                               !.calls = Append(@, "is_enrolled")]
              ELSE [ret EXCEPT !.pc = "embed", !.calls = Append(@, "is_enrolled")]
    /\ UNCHANGED <<enrollments, retCalls, ingVars, tutVars, fnVars>>

\* 2. query_embedding = await self.embedding_service.embed_text(request.query)
RetrieveEmbed ==
    /\ ret.pc = "embed"
    /\ \/ ret' = [ret EXCEPT !.pc = "search", !.embedCalls = @ + 1,
                             !.calls = Append(@, "embed_text")]
       \/ ret' = [ret EXCEPT !.pc = "raised", !.embedCalls = @ + 1,
                             !.outcome = "upstream_error",
                             !.calls = Append(@, "embed_text")]
    /\ UNCHANGED <<enrollments, retCalls, ingVars, tutVars, fnVars>>

\* 3.-6. build the filter, client.search(...), transform the hits, return
RetrieveSearch ==
    /\ ret.pc = "search"
    /\ LET f == BuildFilter(ret.req.course_id, ret.req.exclude_assignments,
                            ret.req.session_filter)
       IN  \/ \E H \in SearchResults(points, f, ret.req.top_k) :
                ret' = [ret EXCEPT !.pc = "returned", !.outcome = "ok",
                                   !.searchCalls = @ + 1, !.filter = f,
                                   !.limit = ret.req.top_k,
                                   !.calls = Append(@, "search"),
                                   !.hits = H,
                                   !.chunks = {ToRetrievedChunk(h) : h \in H}]
           \/ ret' = [ret EXCEPT !.pc = "raised", !.outcome = "upstream_error",
                                 !.searchCalls = @ + 1, !.filter = f,
                                 !.limit = ret.req.top_k,
                                 !.calls = Append(@, "search")]
    /\ UNCHANGED <<enrollments, retCalls, ingVars, tutVars, fnVars>>

\* the source_uri of the k-th deck that is indexed
UriOfDeck(k) == <<"deck1.pdf", "deck2.pdf", "deck3.pdf", "deck4.pdf">>[k]

\* a complete successful run of ingest() on a one-chunk deck (vector storage
\* enabled, one vector per chunk), taken between two steps of a retrieval
IndexDocument(r) ==
    /\ Cardinality(documents) < MaxIndexed
    /\ r.course_id \in Courses
    /\ DocsBySourceUri(r.source_uri) = {}
    /\ LET doc == nextId
           ids == ChunkIds(nextId + 1, 1)
           chunks == [i \in 1..1 |-> NewChunkRow(ids[i], i, doc, r)]
       IN  /\ documents' = RepoCreate(documents, NewDocument(doc, r))
           /\ chunkRows' = UpdateEmbeddingIds(
                   chunkRows \cup {chunks[i] : i \in 1..1}, {ids[i] : i \in 1..1})
           /\ points' = Upsert(points, StorePoints(chunks, 1, r.course_id, r.session_id))
           /\ nextId' = nextId + 2
           /\ completed' = completed \cup {doc}
    /\ UNCHANGED <<USE_QDRANT, ing, ingCalls, retVars, tutVars, fnVars>>

\* the session of the k-th deck that is indexed: decks with and without one
SessionOfDeck(k) == <<"week_1", None, "week_1", None>>[k]

\* the decks that are indexed: any course and assignment flag
IndexRequests ==
    [course_id : Courses, source_uri : {UriOfDeck(Cardinality(documents) + 1)},
     session_id : {SessionOfDeck(Cardinality(documents) + 1)},
     assignment_allowed : BOOLEAN]

RetrieveInit ==
    /\ IngestIdle
    /\ USE_QDRANT
    /\ enrollments \in SUBSET [student_id : Students, course_id : Courses]
    /\ ret = IdleRetrieval
    /\ retCalls = 0
    /\ TutorIdle
    /\ SelectorIdle
    /\ EmbedIdle
    /\ ServicesIdle

RetrieveNext ==
    \/ \E r \in RetrievalRequest : RetrieveBegin(r)
    \/ RetrieveValidate
    \/ RetrieveCheckEnrollment
    \/ RetrieveEmbed
    \/ RetrieveSearch
    \/ RetrieveRelease
    \/ \E r \in IndexRequests : IndexDocument(r)

SpecRetrieve == RetrieveInit /\ [][RetrieveNext]_vars

(***************************************************************************)
(* Text helpers: Python str methods on tuples of characters.               *)
(***************************************************************************)
\* s[:n]
Take(s, n) == SubSeq(s, 1, Min(n, Len(s)))

\* str.split(): the maximal runs of non-whitespace characters, in order
RECURSIVE SplitFrom(_, _, _)
SplitFrom(s, word, words) ==
    IF s = <<>>
    THEN IF word = <<>> THEN words ELSE Append(words, word)
    ELSE IF IsSpace(Head(s))
         THEN SplitFrom(Tail(s), <<>>,
                        IF word = <<>> THEN words ELSE Append(words, word))
         ELSE SplitFrom(Tail(s), Append(word, Head(s)), words)

Split(s) == SplitFrom(s, <<>>, <<>>)

\* " ".join(words)
RECURSIVE Join(_)
Join(words) ==
    IF words = <<>> THEN <<>>
    ELSE IF Len(words) = 1 THEN words[1]
    ELSE words[1] \o <<" ">> \o Join(Tail(words))

\* s is a non-empty piece of the text q
TextInfix(s, q) ==
    /\ s # <<>>
    /\ \E i \in 1..Len(q) :
          i + Len(s) - 1 <= Len(q) /\ SubSeq(q, i, i + Len(s) - 1) = s

(***************************************************************************)
(* EmbeddingService implementations (services/embeddings.py).              *)
(***************************************************************************)
\* GeminiEmbeddingService and LocalEmbeddingService
EmbeddingImpls == {"gemini", "local"}

\* texts to embed, as tuples of characters; the last one is whitespace only
EmbedTexts == {<<"a">>, <<"b">>, <<" ">>}

\* the lists of texts embed_batch is called with
EmbedInputs == UNION {[1..n -> EmbedTexts] : n \in 0..MaxTexts}

\* the vector the embedding model computes for a text
Vec(text) == <<"vec", text>>

\* EmbeddingResult(text=text, vector=vector, ...)
EmbeddingResult(text, vector) == [text |-> text, vector |-> vector]

\* [EmbeddingResult(...) for text, vector in zip(texts, embeddings)]: as
\* many results as the shorter list has
ZipResults(texts, embeddings) ==
    [j \in 1..Min(Len(texts), Len(embeddings)) |->
        EmbeddingResult(texts[j], embeddings[j])]

\* what the upstream batch call can answer for a batch: the vectors of its
\* first m texts, for each m of EmbedCounts
BatchAnswers(batch) ==
    {[j \in 1..m |-> Vec(batch[j])] : m \in EmbedCounts(Len(batch))}

\* texts[i:i + self._batch_size]
SubBatch(texts, i) == SubSeq(texts, i + 1, Min(i + BatchSize, Len(texts)))

\* the position after a sub-batch is done: the next one, or return results
AfterSubBatch(e, batch_results) ==
    LET next == e.i + BatchSize
    IN  [e EXCEPT !.results = e.results \o batch_results,
                  !.fallback = <<>>,
                  !.i = next,
                  !.pc = IF next < Len(e.texts) THEN "batch" ELSE "returned"]

\* embed_batch(texts) is called on one of the implementations
EmbedBegin ==
    /\ emb.pc = "idle"
    /\ \E impl \in EmbeddingImpls, texts \in EmbedInputs :
         emb' = IF texts = <<>>
                THEN [emb EXCEPT !.pc = "returned", !.impl = impl, !.texts = texts]
                ELSE IF \E j \in 1..Len(texts) : (texts[j] = <<>> \/ Strip(texts[j]) = <<>>)
                THEN [emb EXCEPT !.pc = "raised", !.impl = impl, !.texts = texts]
                ELSE [emb EXCEPT !.pc = IF impl = "gemini" THEN "batch" ELSE "encode",
                                 !.impl = impl, !.texts = texts]
    /\ UNCHANGED <<sel, svcVars, ingVars, retVars, tutVars>>

\* GeminiEmbeddingService: batch_results = await self._embed_batch_internal(batch);
\* the upstream batch call answers, or raises and the fallback starts
EmbedBatchCall ==
    /\ emb.pc = "batch"
    /\ LET batch == SubBatch(emb.texts, emb.i)
           sent == [emb EXCEPT !.batch = batch, !.batchCalls = Append(@, batch)]
       IN  \/ \E embeddings \in BatchAnswers(batch) :
                emb' = AfterSubBatch(sent, ZipResults(batch, embeddings))
           \/ emb' = [sent EXCEPT !.pc = "fallback"]
    /\ UNCHANGED <<sel, svcVars, ingVars, retVars, tutVars>>

\* the fallback loop: result = await self.embed_text(text) for the next text
\* of the sub-batch; it answers or raises, and a raise leaves embed_batch
EmbedFallbackItem ==
    /\ emb.pc = "fallback"
    /\ Len(emb.fallback) < Len(emb.batch)
    /\ LET text == emb.batch[Len(emb.fallback) + 1]
           sent == [emb EXCEPT !.itemCalls = Append(@, text)]
       IN  \/ emb' = [sent EXCEPT
                        !.fallback = Append(@, EmbeddingResult(text, Vec(text)))]
           \/ emb' = [sent EXCEPT !.pc = "raised"]
    /\ UNCHANGED <<sel, svcVars, ingVars, retVars, tutVars>>

\* the fallback loop is over: return results
EmbedFallbackDone ==
    /\ emb.pc = "fallback"
    /\ Len(emb.fallback) = Len(emb.batch)
    /\ emb' = AfterSubBatch(emb, emb.fallback)
    /\ UNCHANGED <<sel, svcVars, ingVars, retVars, tutVars>>

\* LocalEmbeddingService: vectors = self._model.encode(texts, ...), one
\* call for the whole list; it answers, or raises and embed_batch raises
EmbedEncode ==
    /\ emb.pc = "encode"
    /\ LET sent == [emb EXCEPT !.batch = emb.texts, !.batchCalls = Append(@, emb.texts)]
       IN  \/ \E vectors \in BatchAnswers(emb.texts) :
                emb' = [sent EXCEPT !.pc = "returned",
                                    !.results = ZipResults(emb.texts, vectors)]
           \/ emb' = [sent EXCEPT !.pc = "raised"]
    /\ UNCHANGED <<sel, svcVars, ingVars, retVars, tutVars>>

EmbedInit ==
    /\ IngestIdle
    /\ USE_QDRANT
    /\ RetrievalIdle
    /\ TutorIdle
    /\ SelectorIdle
    /\ EmbedIdle
    /\ ServicesIdle

EmbedNext ==
    \/ EmbedBegin
    \/ EmbedBatchCall
    \/ EmbedFallbackItem
    \/ EmbedFallbackDone
    \/ EmbedEncode

SpecEmbed == EmbedInit /\ [][EmbedNext]_vars

(***************************************************************************)
(* RAGStrategySelector (services/rag_strategies.py).                       *)
(***************************************************************************)
\* the values of enum CourseType
CourseTypes == {"micro", "certification", "standard"}

\* course_type: str as callers can pass it; "other" is no value of the enum
CourseTypeInputs == CourseTypes \cup {"other"}

\* queries of the selector: texts of the characters "w" and " "
SelectorQueries ==
    UNION {[1..n -> {"w", " "}] : n \in 0..MaxQueryLen}

\* MicroCourseStrategy.get_config
MicroConfig(total_chunks) ==
    [course_type |-> "micro", total_chunks |-> total_chunks,
     initial_top_k |-> 5, final_top_k |-> 5, use_reranking |-> FALSE,
     use_query_expansion |-> FALSE, use_hierarchical_filter |-> FALSE]

\* the large-corpus config with the 2000 threshold taken inclusively
CertificationConfig_Inclusive(total_chunks) ==
    [course_type |-> "certification", total_chunks |-> total_chunks,
     initial_top_k |-> IF total_chunks > 5000 THEN 20
                       ELSE IF total_chunks >= 2000 THEN 15 ELSE 10,
     final_top_k |-> 5, use_reranking |-> TRUE,
     use_query_expansion |-> TRUE, use_hierarchical_filter |-> TRUE]

\* CertificationCourseStrategy.get_config
CertificationConfig(total_chunks) ==
    [course_type |-> "certification", total_chunks |-> total_chunks,
     initial_top_k |-> IF total_chunks > 5000 THEN 20
                       ELSE IF total_chunks > 2000 THEN 15 ELSE 10,
     final_top_k |-> 5, use_reranking |-> TRUE,
     use_query_expansion |-> TRUE, use_hierarchical_filter |-> TRUE]

\* StandardCourseStrategy.get_config
StandardConfig(total_chunks) ==
    LET use_reranking == total_chunks > 1000
    IN  [course_type |-> "standard", total_chunks |-> total_chunks,
         initial_top_k |-> IF use_reranking THEN 10 ELSE 5, final_top_k |-> 5,
         use_reranking |-> use_reranking,
         use_query_expansion |-> FALSE, use_hierarchical_filter |-> FALSE]

\* CourseType(course_type) raises ValueError when course_type is no value
\* of the enum
IsCourseType(course_type) == course_type \in CourseTypes

\* RAGStrategySelector.get_strategy, for a value of the enum
GetStrategy(course_type, total_chunks) ==
    CASE course_type = "micro" -> MicroConfig(total_chunks)
      [] course_type = "certification" -> CertificationConfig(total_chunks)
      [] OTHER -> StandardConfig(total_chunks)

\* the large- and medium-corpus limits taken inclusively
ShouldExpandQuery_Inclusive(course_type, query) ==
    CASE course_type = "micro" -> FALSE
      [] course_type = "certification" -> Len(Split(query)) <= 8
      [] OTHER -> Len(Split(query)) <= 5

\* RAGStrategySelector.should_expand_query, for a value of the enum
ShouldExpandQuery(course_type, query) ==
    CASE course_type = "micro" -> FALSE
      [] course_type = "certification" -> Len(Split(query)) < 8
      [] OTHER -> Len(Split(query)) < 5

\* selector.get_strategy(course_type, total_chunks) is called
SelectorGetStrategy ==
    /\ sel.pc = "idle"
    /\ \E course_type \in CourseTypeInputs, total_chunks \in 0..MaxTotalChunks :
         sel' = IF IsCourseType(course_type)
                THEN [sel EXCEPT !.pc = "returned", !.op = "get_strategy",
                                 !.course_type = course_type,
                                 !.total_chunks = total_chunks,
                                 !.config = GetStrategy(course_type, total_chunks)]
                ELSE [sel EXCEPT !.pc = "raised", !.op = "get_strategy",
                                 !.course_type = course_type,
                                 !.total_chunks = total_chunks]
    /\ UNCHANGED <<emb, svcVars, ingVars, retVars, tutVars>>

\* selector.should_expand_query(course_type, query) is called
SelectorShouldExpandQuery ==
    /\ sel.pc = "idle"
    /\ \E course_type \in CourseTypeInputs, query \in SelectorQueries :
         sel' = IF IsCourseType(course_type)
                THEN [sel EXCEPT !.pc = "returned", !.op = "should_expand_query",
                                 !.course_type = course_type, !.query = query,
                                 !.expand = ShouldExpandQuery(course_type, query)]
                ELSE [sel EXCEPT !.pc = "raised", !.op = "should_expand_query",
                                 !.course_type = course_type, !.query = query]
    /\ UNCHANGED <<emb, svcVars, ingVars, retVars, tutVars>>

SelectorInit ==
    /\ IngestIdle
    /\ USE_QDRANT
    /\ RetrievalIdle
    /\ TutorIdle
    /\ SelectorIdle
    /\ EmbedIdle
    /\ ServicesIdle

SelectorNext ==
    \/ SelectorGetStrategy
    \/ SelectorShouldExpandQuery

SpecSelector == SelectorInit /\ [][SelectorNext]_vars

(***************************************************************************)
(* SelfReflectiveTutorService (services/tutor.py).                         *)
(***************************************************************************)
\* texts the validation call can answer with, as tuples of characters
ValidationTexts ==
    {<<"Y", "E", "S">>, <<"y", "e", "s">>, <<" ", "Y", "e", "s", ",">>,
     <<"N", "O">>, <<"N", "O", " ", "Y", "E", "S">>, <<"Y", "E">>, <<>>}

\* str.upper() over the letters of the model
Upper(t) ==
    LET upper(c) == CASE c = "y" -> "Y" [] c = "e" -> "E" [] c = "s" -> "S"
                      [] c = "n" -> "N" [] c = "o" -> "O" [] OTHER -> c
    IN  [i \in 1..Len(t) |-> upper(t[i])]

\* str.startswith(prefix)
StartsWith(t, prefix) ==
    Len(t) >= Len(prefix) /\ SubSeq(t, 1, Len(prefix)) = prefix

\* a failed validation call blocks the answer
ValidationVerdict_FailClosed(raised, text) ==
    IF raised THEN FALSE ELSE StartsWith(Upper(Strip(text)), <<"Y", "E", "S">>)

\* the verdict without the upper-casing
ValidationVerdict_NoUpper(raised, text) ==
    IF raised THEN TRUE ELSE StartsWith(Strip(text), <<"Y", "E", "S">>)

\* can_answer: validation_response.strip().upper().startswith("YES"), and
\* True when the validation call raised
ValidationVerdict(raised, text) ==
    IF raised THEN TRUE ELSE StartsWith(Upper(Strip(text)), <<"Y", "E", "S">>)

\* has_course_context = can_answer and len(request.retrieval_result.chunks) > 0
HasCourseContext(can_answer, nchunks) == can_answer /\ nchunks > 0

\* _build_prompt or _build_general_knowledge_prompt
PromptFor(has_course_context) == IF has_course_context THEN "course" ELSE "general"

\* confidence label and score
ConfidenceFor(has_course_context) ==
    IF has_course_context THEN "validated" ELSE "general_knowledge"

\* the score of a validated answer without the cap
ConfidenceScoreFor_NoCap(has_course_context, nsources) ==
    IF has_course_context THEN nsources * 20 + 40 ELSE 60

ConfidenceScoreFor(has_course_context, nsources) ==
    IF has_course_context THEN Min(100, nsources * 20 + 40) ELSE 60

\* _build_sources: one source reference per retrieved chunk
BuildSources(nchunks) == Cardinality(1..nchunks)

\* str(e): the text of the exception a failed call raised
ExceptionText == "str(e)"

\* detail of the HTTP 500 and data of the error event the API layer builds
GenericDetail == "An error occurred processing your request"

\* events of the stream; data is the text fragment of a chunk event, the
\* metrics of a done event and the message of an error event
Event(type) ==
    [type |-> type, sources |-> 0, confidence |-> "none", confidence_score |-> 0,
     data |-> CASE type = "chunk" -> "fragment"
                [] type = "done" -> "metrics"
                [] type = "error" -> ExceptionText
                [] OTHER -> "none"]

MetadataEvent(t) ==
    [type |-> "metadata", sources |-> t.sources, confidence |-> t.confidence,
     confidence_score |-> t.confidence_score, data |-> "metadata"]

\* the metadata event is not emitted
YieldMetadata_Missing(t) == t.events

\* 6. yield {"type": "metadata", ...}
YieldMetadata(t) == Append(t.events, MetadataEvent(t))

\* questions, as tuples of characters: one, two and six words, and two
\* words two spaces apart
Questions ==
    {<<"a">>, <<"a", " ", "b">>, <<"a", " ", " ", "b">>,
     <<"a", " ", "b", " ", "a", " ", "b", " ", "a", " ", "b">>}

TutorRequest ==
    [mode : {"respond", "respond_stream"},
     nchunks : 0..MaxSources,
     enable_analytics : BOOLEAN,
     question : Questions]

Streaming == tut.mode = "respond_stream"

\* an exception leaves the call: respond() raises it to its caller,
\* respond_stream() catches it and yields an error event
Throw(t) ==
    IF t.mode = "respond_stream"
    THEN [t EXCEPT !.pc = "ended", !.outcome = "error", !.failedAt = t.pc,
                   !.events = Append(t.events, Event("error"))]
    ELSE [t EXCEPT !.pc = "ended", !.outcome = "raised", !.failedAt = t.pc]

\* a caller invokes respond(request) or respond_stream(request)
TutorBegin(r) ==
    /\ tut.pc \in {"idle", "ended"}
    /\ tutCalls < MaxAnswers
    /\ tutCalls' = tutCalls + 1
    /\ tut' = [IdleAnswer EXCEPT !.pc = "fetch", !.mode = r.mode,
                                 !.nchunks = r.nchunks,
                                 !.enable_analytics = r.enable_analytics,
                                 !.question = r.question,
                                 !.phases = <<"START">>]
    /\ UNCHANGED <<analytics, ingVars, retVars, fnVars>>

\* the position after the chunk texts are fetched, validation left out when
\* nothing was retrieved
AfterFetch_SkipValidation(t) ==
    IF t.nchunks = 0
    THEN [t EXCEPT !.pc = IF t.mode = "respond_stream" THEN "metadata" ELSE "generate",
                   !.confidence = "general_knowledge", !.confidence_score = 60,
                   !.prompt = "general"]
    ELSE [t EXCEPT !.pc = "validate"]

\* 1.-2. the chunk texts are fetched and the context is built; next comes
\* the validation step
AfterFetch(t) == [t EXCEPT !.pc = "validate"]

\* full_texts = await self.chunk_repo.get_full_text_by_ids(chunk_ids)
TutorFetch ==
    /\ tut.pc = "fetch"
    /\ \/ tut' = AfterFetch(tut)
       \/ tut' = Throw(tut)
    /\ UNCHANGED <<tutCalls, analytics, ingVars, retVars, fnVars>>

\* 3. the validation call is issued: self._invoke_llm(validation_prompt, None, "strict")
TutorValidateIssue ==
    /\ tut.pc = "validate"
    /\ tut' = [tut EXCEPT !.pc = "validating", !.valCalls = @ + 1,
                          !.phases = Append(@, "VALIDATE")]
    /\ UNCHANGED <<tutCalls, analytics, ingVars, retVars, fnVars>>

\* the state after the validation call returned text, or raised
AfterValidation(t, raised, text) ==
    LET can == ValidationVerdict(raised, text)
        ctx == HasCourseContext(can, t.nchunks)
    IN  IF t.mode = "respond_stream"
        THEN [t EXCEPT !.pc = "metadata", !.valDone = TRUE, !.valRaised = raised,
                       !.valText = text, !.can_answer = can,
                       !.has_course_context = ctx,
                       !.sources = BuildSources(t.nchunks),
                       !.confidence = ConfidenceFor(ctx),
                       !.confidence_score =
                           ConfidenceScoreFor(ctx, BuildSources(t.nchunks))]
        ELSE [t EXCEPT !.pc = "generate", !.valDone = TRUE, !.valRaised = raised,
                       !.valText = text, !.can_answer = can,
                       !.has_course_context = ctx,
                       !.prompt = PromptFor(ctx)]

\* the validation call returns a text, or raises and is caught
TutorValidateReturn ==
    /\ tut.pc = "validating"
    /\ \/ \E text \in ValidationTexts : tut' = AfterValidation(tut, FALSE, text)
       \/ tut' = AfterValidation(tut, TRUE, <<>>)
    /\ UNCHANGED <<tutCalls, analytics, ingVars, retVars, fnVars>>

\* respond_stream 6.-7.: the metadata event, then the prompt is built
TutorYieldMetadata ==
    /\ tut.pc = "metadata"
    /\ tut' = [tut EXCEPT !.pc = "generate", !.events = YieldMetadata(tut),
                          !.prompt = PromptFor(tut.has_course_context)]
    /\ UNCHANGED <<tutCalls, analytics, ingVars, retVars, fnVars>>

\* the generation call is issued: _invoke_llm(prompt, ...) or
\* _invoke_llm_stream(prompt, ...)
TutorGenerateIssue ==
    /\ tut.pc = "generate"
    /\ tut' = [tut EXCEPT !.pc = "generating", !.genCalls = @ + 1,
                          !.phases = Append(@, "GENERATE")]
    /\ UNCHANGED <<tutCalls, analytics, ingVars, retVars, fnVars>>

\* respond 5.-6.: the generation call returns; sources and confidence
TutorGenerateReturn ==
    /\ tut.pc = "generating"
    /\ ~Streaming
    /\ \/ tut' = [tut EXCEPT
                    !.pc = "log",
                    !.sources = BuildSources(tut.nchunks),
                    !.confidence = ConfidenceFor(tut.has_course_context),
                    !.confidence_score =
                        ConfidenceScoreFor(tut.has_course_context,
                                           BuildSources(tut.nchunks))]
       \/ tut' = Throw(tut)
    /\ UNCHANGED <<tutCalls, analytics, ingVars, retVars, fnVars>>

\* respond_stream 8.: a text fragment arrives and is yielded as a chunk event
TutorStreamFragment ==
    /\ tut.pc = "generating"
    /\ Streaming
    /\ tut.fragments < MaxFragments
    /\ tut' = [tut EXCEPT !.fragments = @ + 1,
                          !.events = Append(@, Event("chunk"))]
    /\ UNCHANGED <<tutCalls, analytics, ingVars, retVars, fnVars>>

\* respond_stream 8.: the provider's stream raises
TutorStreamFail ==
    /\ tut.pc = "generating"
    /\ Streaming
    /\ tut' = Throw(tut)
    /\ UNCHANGED <<tutCalls, analytics, ingVars, retVars, fnVars>>

\* respond_stream 9.-10.: the provider's stream is exhausted; the done event
TutorYieldDone ==
    /\ tut.pc = "generating"
    /\ Streaming
    /\ tut' = [tut EXCEPT !.pc = "log", !.events = Append(@, Event("done"))]
    /\ UNCHANGED <<tutCalls, analytics, ingVars, retVars, fnVars>>

\* the call ends normally
Finish(t) ==
    [t EXCEPT !.pc = "ended",
              !.outcome = IF t.outcome = "none" THEN "ok" ELSE t.outcome,
              !.phases = Append(t.phases, "DONE")]

\* words = request.question.split()[:5]
\* query_topic = " ".join(words)[:255] if words else None
QueryTopic(question) ==
    LET words == Take(Split(question), 5)
    IN  IF words = <<>> THEN NoTopic ELSE Take(Join(words), 255)

\* analytics = QueryAnalytics(...)
NewAnalyticsRow(t) ==
    [query_topic |-> QueryTopic(t.question),
     query_length |-> Len(t.question),
     confidence_score |-> t.confidence_score,
     sources_count |-> t.sources,
     was_hallucination_detected |-> FALSE]

\* await self._log_analytics(...): analytics disabled, or the row is
\* committed, or the commit fails and the rollback succeeds
TutorLogAnalytics ==
    /\ tut.pc = "log"
    /\ \/ /\ ~tut.enable_analytics
          /\ tut' = Finish(tut)
          /\ UNCHANGED analytics
       \/ /\ tut.enable_analytics
          /\ tut' = Finish([tut EXCEPT !.row = NewAnalyticsRow(tut), !.logged = TRUE])
          /\ analytics' = analytics \cup {NewAnalyticsRow(tut)}
       \/ /\ tut.enable_analytics
          /\ tut' = Finish([tut EXCEPT !.row = NewAnalyticsRow(tut)])
          /\ UNCHANGED analytics
    /\ UNCHANGED <<tutCalls, ingVars, retVars, fnVars>>

\* _log_analytics: the commit fails and await self.db.rollback() raises too
TutorLogAnalyticsFail ==
    /\ tut.pc = "log"
    /\ tut.enable_analytics
    /\ tut' = Throw(tut)
    /\ UNCHANGED <<tutCalls, analytics, ingVars, retVars, fnVars>>

TutorInit ==
    /\ IngestIdle
    /\ RetrievalIdle
    /\ TutorIdle
    /\ SelectorIdle
    /\ EmbedIdle
    /\ ServicesIdle

TutorNext ==
    \/ \E r \in TutorRequest : TutorBegin(r)
    \/ TutorFetch
    \/ TutorValidateIssue
    \/ TutorValidateReturn
    \/ TutorYieldMetadata
    \/ TutorGenerateIssue
    \/ TutorGenerateReturn
    \/ TutorStreamFragment
    \/ TutorStreamFail
    \/ TutorYieldDone
    \/ TutorLogAnalytics
    \/ TutorLogAnalyticsFail

SpecTutor == TutorInit /\ [][TutorNext]_vars

\* concurrent ingestion: tasks interleave at their suspension points
IngestNext ==
    /\ \/ \E p \in Procs, r \in IngestRequests : IngestBegin(p, r)
       \/ \E p \in Procs : IngestStep(p)
    /\ UNCHANGED <<retVars, tutVars, fnVars>>

\* sequential ingestion: a call starts when no other call is in flight
IngestSeqNext ==
    /\ \/ \E p \in Procs, r \in IngestRequests :
             (\A q \in Procs : ~Active(q)) /\ IngestBegin(p, r)
       \/ \E p \in Procs : IngestStep(p)
    /\ UNCHANGED <<retVars, tutVars, fnVars>>

IngestInit ==
    /\ IngestIdle
    /\ RetrievalIdle
    /\ TutorIdle
    /\ SelectorIdle
    /\ EmbedIdle
    /\ ServicesIdle

SpecIngest == IngestInit /\ [][IngestNext]_vars

SpecIngestSeq == IngestInit /\ [][IngestSeqNext]_vars

(***************************************************************************)
(* RerankerService (services/reranking.py).                                *)
(***************************************************************************)
\* str.lower() over the letters of the model
Lower(t) ==
    LET lower(c) == IF c = "T" THEN "t" ELSE IF c = "U" THEN "u" ELSE c
    IN  [i \in 1..Len(t) |-> lower(t[i])]

\* set(text.split())
WordSet(t) == {Split(t)[i] : i \in 1..Len(Split(t))}

\* the queries rerank is called with
RerankQueries == {<<"t">>, <<"u">>}

\* chunks as the vector search returns them (dicts): score is the vector
\* score in hundredths
RerankChunks ==
    {[chunk_id |-> "c1", text_preview |-> <<"t">>, slide_title |-> <<>>, score |-> 90],
     [chunk_id |-> "c2", text_preview |-> <<"T", " ", "u">>, slide_title |-> <<"t">>, score |-> 50],
     [chunk_id |-> "c3", text_preview |-> <<"u">>, slide_title |-> <<"u">>, score |-> 50]}

\* candidate lists: distinct chunks, in any order
CandidateLists ==
    UNION {{l \in [1..n -> RerankChunks] : \A i, j \in 1..n : l[i] = l[j] => i = j} :
              n \in 0..MaxCandidates}

\* _compute_relevance_score, in millionths:
\* 0.4 * vector_score + 0.3 * keyword_score + 0.2 * title_bonus + 0.1 * length_penalty
ComputeRelevanceScore(query, chunk) ==
    LET text == Lower(chunk.text_preview)
        query_words == WordSet(Lower(query))
        slide_title == Lower(chunk.slide_title)
        overlap == Cardinality(query_words \cap WordSet(text))
        words == IF Cardinality(query_words) > 1 THEN Cardinality(query_words) ELSE 1
        keyword_score == (300000 * overlap) \div words
        title_bonus == IF \E word \in query_words : TextInfix(word, slide_title)
                       THEN 60000 ELSE 0
        length_penalty == 100000000 \div (1000 + Len(text))
    IN  4000 * chunk.score + keyword_score + title_bonus + length_penalty

\* RankedChunk(chunk_id, score, text_preview=...[:200], original_rank=idx)
RankedChunk(query, chunk, idx) ==
    [chunk_id |-> chunk.chunk_id,
     score |-> ComputeRelevanceScore(query, chunk),
     text_preview |-> Take(chunk.text_preview, 200),
     original_rank |-> idx]

\* for idx, chunk in enumerate(chunks): scored_chunks.append(RankedChunk(...))
ScoredChunks(query, chunks) ==
    [i \in 1..Len(chunks) |-> RankedChunk(query, chunks[i], i - 1)]

\* list.sort(key=score, reverse=True) is stable: x goes after the entries
\* whose score is at least its own
InsertByScore(sorted, x) ==
    LET k == Cardinality({i \in 1..Len(sorted) : sorted[i].score >= x.score})
    IN  SubSeq(sorted, 1, k) \o <<x>> \o SubSeq(sorted, k + 1, Len(sorted))

RECURSIVE SortByScore(_)
SortByScore(l) ==
    IF l = <<>> THEN <<>>
    ELSE InsertByScore(SortByScore(SubSeq(l, 1, Len(l) - 1)), l[Len(l)])

\* cache_key = f"{query}:{len(chunks)}"
CacheKey(query, chunks) == <<query, Len(chunks)>>

CacheHas(cache, key) == \E e \in cache : e.key = key
CacheGet(cache, key) == (CHOOSE e \in cache : e.key = key).value
CachePut(cache, key, value) ==
    {e \in cache : e.key # key} \cup {[key |-> key, value |-> value]}

\* rerank(query, chunks, top_k) on the instance r, caching enabled
RerankCall(r, query, chunks, top_k) ==
    LET called == [r EXCEPT !.pc = "returned", !.query = query, !.chunks = chunks,
                            !.top_k = top_k, !.hit = FALSE, !.calls = @ + 1]
        cache_key == CacheKey(query, chunks)
        scored_chunks == SortByScore(ScoredChunks(query, chunks))
    IN  IF chunks = <<>>
        THEN [called EXCEPT !.result = <<>>]
        ELSE IF CacheHas(r.cache, cache_key)
        THEN [called EXCEPT !.hit = TRUE,
                            !.result = Take(CacheGet(r.cache, cache_key), top_k)]
        ELSE [called EXCEPT !.cache = CachePut(r.cache, cache_key, scored_chunks),
                            !.result = Take(scored_chunks, top_k)]

\* a caller invokes rerank on the shared instance
Rerank ==
    /\ rer.calls < MaxRerankCalls
    /\ \E query \in RerankQueries, chunks \in CandidateLists, top_k \in 1..MaxTopK :
         rer' = RerankCall(rer, query, chunks, top_k)
    /\ UNCHANGED <<sel, emb, qex, app, rl, chk, ingVars, retVars, tutVars>>

RerankInit ==
    /\ IngestIdle
    /\ USE_QDRANT
    /\ RetrievalIdle
    /\ TutorIdle
    /\ SelectorIdle
    /\ EmbedIdle
    /\ ServicesIdle

RerankNext == Rerank

SpecRerank == RerankInit /\ [][RerankNext]_vars

(***************************************************************************)
(* QueryExpansionService (services/query_expansion.py).                    *)
(***************************************************************************)
\* values json.loads can return, as far as _generate_expansions looks into
\* them: type, the characters of a string, the items of an array, the
\* members of an object; type "invalid" stands for a JSONDecodeError
JsonValue(type, chars, items, members) ==
    [type |-> type, chars |-> chars, items |-> items, members |-> members]
JsonInvalid == JsonValue("invalid", <<>>, <<>>, {})
JsonInt == JsonValue("int", <<>>, <<>>, {})
JsonStr(chars) == JsonValue("str", chars, <<>>, {})
JsonArray(items) == JsonValue("array", <<>>, items, {})
JsonObject(members) == JsonValue("object", <<>>, <<>>, members)
Member(key, value) == [key |-> key, value |-> value]

\* the text n times the character c
Rep(c, n) == [i \in 1..n |-> c]

\* documents the generation call can answer with
JsonDocuments ==
    {JsonObject({Member("expansions", JsonArray(<<JsonStr(<<"a">>), JsonStr(<<"b">>)>>))}),
     JsonObject({Member("expansions",
                        JsonArray(<<JsonStr(<<"a">>), JsonStr(<<"b">>), JsonStr(<<"c">>)>>))}),
     JsonObject({Member("expansions",
                        JsonArray(<<JsonStr(<<" ">>), JsonInt, JsonStr(<<" ", "a", " ">>)>>))}),
     JsonObject({Member("expansions", JsonArray(<<>>))}),
     JsonObject({Member("expansions", JsonStr(<<"a", " ", "b", "c">>))}),
     JsonObject({Member("expansions", JsonInt)}),
     JsonObject({Member("expansions", JsonValue("null", <<>>, <<>>, {}))}),
     JsonObject({Member("expansions", JsonObject({Member("k", JsonInt)}))}),
     JsonObject({Member("other", JsonArray(<<JsonStr(<<"a">>)>>))}),
     JsonObject({}),
     JsonArray(<<JsonStr(<<"a">>)>>),
     JsonStr(<<"a">>),
     JsonInt,
     JsonValue("null", <<>>, <<>>, {})}

\* texts that are not JSON, by their lines: empty, prose with three long
\* lines, a broken object with a short and a quoted long line
PlainTexts ==
    {<< <<>> >>,
     <<Rep("x", 11), Rep("y", 11), <<" ">> \o Rep("z", 11)>>,
     <<<<"{">> \o Rep("x", 11), Rep("x", 10), <<"\"">> \o Rep("x", 11) \o <<"\"", ",">>,
       <<"'">> \o Rep("y", 11) \o <<"'">>>>}

\* what self.model.generate_content(prompt) and response.text can do: raise,
\* or give a text, bare or inside a ```json / ``` fence; a text is given by
\* the value json.loads returns for it and by its lines
Generations ==
    {[raises |-> TRUE, fence |-> "none", json |-> JsonInvalid, lines |-> <<>>]}
    \cup {[raises |-> FALSE, fence |-> f, json |-> d, lines |-> << <<"{">> >>] :
             f \in {"none", "json"}, d \in JsonDocuments}
    \cup {[raises |-> FALSE, fence |-> f, json |-> JsonInvalid, lines |-> l] :
             f \in {"none", "plain"}, l \in PlainTexts}

\* response_text.split("```json")[1].split("```")[0].strip(), or the same with
\* "```": the text inside the fence
RemoveFence(g) == [g EXCEPT !.fence = "none"]

\* str.strip(chars)
RECURSIVE LStripOf(_, _)
LStripOf(q, cs) == IF q # <<>> /\ Head(q) \in cs THEN LStripOf(Tail(q), cs) ELSE q
RECURSIVE RStripOf(_, _)
RStripOf(q, cs) ==
    IF q # <<>> /\ q[Len(q)] \in cs THEN RStripOf(SubSeq(q, 1, Len(q) - 1), cs) ELSE q
StripOf(q, cs) == RStripOf(LStripOf(q, cs), cs)

\* data.get("expansions", [])
GetExpansions(data) ==
    IF \E m \in data.members : m.key = "expansions"
    THEN (CHOOSE m \in data.members : m.key = "expansions").value
    ELSE JsonArray(<<>>)

RECURSIVE KeysOf(_)
KeysOf(members) ==
    IF members = {} THEN <<>>
    ELSE LET m == CHOOSE m \in members : TRUE
         IN  <<JsonStr(<<m.key>>)>> \o KeysOf(members \ {m})

Iterate(v) ==
    IF v.type = "array" THEN v.items
    ELSE IF v.type = "str" THEN [i \in 1..Len(v.chars) |-> JsonStr(<<v.chars[i]>>)]
    ELSE KeysOf(v.members)

\* [exp.strip() for exp in expansions
\*      if isinstance(exp, str) and len(exp.strip()) > 0]
RECURSIVE ValidExpansions(_)
ValidExpansions(items) ==
    IF items = <<>> THEN <<>>
    ELSE IF Head(items).type = "str" /\ Len(Strip(Head(items).chars)) > 0
         THEN <<Strip(Head(items).chars)>> \o ValidExpansions(Tail(items))
         ELSE ValidExpansions(Tail(items))

\* [line.strip().strip('"').strip("'") for line in lines
\*      if len(line.strip()) > 10 and not line.strip().startswith('{')]
RECURSIVE LineExpansions(_)
LineExpansions(lines) ==
    IF lines = <<>> THEN <<>>
    ELSE LET line == Head(lines)
         IN  IF Len(Strip(line)) > 10 /\ ~StartsWith(Strip(line), <<"{">>)
             THEN <<StripOf(StripOf(Strip(line), {"\""}), {"'"})>>
                     \o LineExpansions(Tail(lines))
             ELSE LineExpansions(Tail(lines))

\* the outcome of a call: the exception it raised ("none": it returned) and
\* the list it returned
Raises(exc) == [raised |-> exc, expansions |-> <<>>]
Returns(expansions) == [raised |-> "none", expansions |-> expansions]

\* json.loads(response_text) and what follows it inside the try block
ParseExpansions(response) ==
    IF response.json.type = "invalid" THEN Raises("JSONDecodeError")
    ELSE IF response.json.type # "object" THEN Raises("AttributeError")
    ELSE IF GetExpansions(response.json).type \notin {"array", "str", "object"}
    THEN Raises("TypeError")  \* for exp in expansions: not iterable
    ELSE Returns(ValidExpansions(Iterate(GetExpansions(response.json))))

\* _generate_expansions(query)
GenerateExpansions(g) ==
    IF g.raises THEN Raises("Exception")
    ELSE LET response == IF g.fence \in {"json", "plain"} THEN RemoveFence(g) ELSE g
             parsed == ParseExpansions(response)
         IN  IF parsed.raised = "none" THEN parsed
             ELSE IF parsed.raised \in {"JSONDecodeError", "KeyError"}  \* the except clause
             THEN Returns(Take(LineExpansions(response.lines), max_expansions))
             ELSE parsed

\* ExpandedQuery(original=query, expansions=expansions) without the slice
ExpandedQuery_NoLimit(query, expansions) ==
    [original |-> query, expansions |-> expansions]

\* ExpandedQuery(original=query, expansions=expansions[:self.max_expansions])
ExpandedQuery(query, expansions) ==
    [original |-> query, expansions |-> Take(expansions, max_expansions)]

\* expand(query) on the instance q, caching enabled, with g what the
\* generation call does if it is made
ExpandCall(q, query, g) ==
    LET called == [q EXCEPT !.pc = "returned", !.query = query, !.hit = FALSE,
                            !.generation = [raises |-> FALSE, fence |-> "none", json |-> JsonInvalid,
                                            lines |-> <<>>], !.failed = FALSE,
                            !.raised = "none", !.calls = @ + 1]
        generated == GenerateExpansions(g)
        result == ExpandedQuery(query, IF generated.raised = "none"
                                       THEN generated.expansions ELSE <<>>)
    IN  IF CacheHas(q.cache, query)
        THEN [called EXCEPT !.hit = TRUE, !.result = CacheGet(q.cache, query)]
        ELSE IF generated.raised \notin {"none", "Exception", "JSONDecodeError", "KeyError",
                                          "AttributeError", "TypeError"}
        THEN [called EXCEPT !.pc = "raised", !.generation = g,
                            !.raised = generated.raised]
        ELSE [called EXCEPT !.generation = g,
                            !.failed = generated.raised # "none",
                            !.cache = CachePut(q.cache, query, result),
                            !.result = result]

\* the queries expand is called with
ExpandQueries == {<<"t">>, <<"u">>}

\* a caller invokes expand on the shared instance
Expand ==
    /\ qex.calls < MaxExpandCalls
    /\ \E query \in ExpandQueries, g \in Generations :
         qex' = ExpandCall(qex, query, g)
    /\ UNCHANGED <<sel, emb, rer, app, rl, chk, ingVars, retVars, tutVars>>

ExpandInit ==
    /\ IngestIdle
    /\ USE_QDRANT
    /\ RetrievalIdle
    /\ TutorIdle
    /\ SelectorIdle
    /\ EmbedIdle
    /\ ServicesIdle

ExpandNext == Expand

SpecExpand == ExpandInit /\ [][ExpandNext]_vars

(***************************************************************************)
(* Process startup (main.py, core/validation.py) and the Qdrant collection *)
(* (db/qdrant.py, scripts/init_qdrant.py).                                 *)
(***************************************************************************)
\* the settings a process is started with (core/config.py and the
\* environment); the database and Qdrant hosts keep their defaults
Settings ==
    [PROJECT_NAME : {"", "AI Tutor"},
     GEMINI_API_KEY : {"", "key"},
     ENV_MODE : {"dev", "prod"},
     JWT_SECRET_KEY : {"your-secret-key-change-in-production", "secret"},
     JWT_ACCESS_TOKEN_EXPIRE_MINUTES : {1440},
     POSTGRES_SERVER : {"localhost"},
     POSTGRES_DB : {"aitutor"},
     QDRANT_HOST : {"localhost"},
     EMBEDDING_DIM : {768, 1024, 1536, 3072},
     USE_LOCAL_EMBEDDINGS : BOOLEAN,
     LOCAL_EMBEDDING_DIM : {1024}]

\* validate_configuration(): the errors it collects
ValidateConfiguration(s) ==
    (IF s.PROJECT_NAME = "" THEN {"PROJECT_NAME"} ELSE {})
    \cup (IF s.GEMINI_API_KEY = "" THEN {"GEMINI_API_KEY"} ELSE {})
    \cup (IF s.JWT_SECRET_KEY = "your-secret-key-change-in-production"
             /\ s.ENV_MODE = "prod"
          THEN {"JWT_SECRET_KEY"} ELSE {})
    \cup (IF s.POSTGRES_SERVER = "" THEN {"POSTGRES_SERVER"} ELSE {})
    \cup (IF s.POSTGRES_DB = "" THEN {"POSTGRES_DB"} ELSE {})
    \cup (IF s.QDRANT_HOST = "" THEN {"QDRANT_HOST"} ELSE {})
    \cup (IF s.EMBEDDING_DIM \notin {768, 1536, 3072} THEN {"EMBEDDING_DIM"} ELSE {})
    \cup (IF s.JWT_ACCESS_TOKEN_EXPIRE_MINUTES <= 0
          THEN {"JWT_ACCESS_TOKEN_EXPIRE_MINUTES"} ELSE {})

\* VectorDBClient.__init__: self.vector_size
VectorSize(s) ==
    IF s.USE_LOCAL_EMBEDDINGS \/ s.GEMINI_API_KEY = ""
    THEN s.LOCAL_EMBEDDING_DIM ELSE s.EMBEDDING_DIM

\* ensure_collection_exists() under settings s: the collection afterwards
\* and whether the call raised
EnsureCollectionExists(collection, s) ==
    IF ~collection.exists
    THEN [collection |-> [exists |-> TRUE, size |-> VectorSize(s)], raised |-> FALSE]
    ELSE IF collection.size # VectorSize(s)
    THEN [collection |-> collection, raised |-> TRUE]
    ELSE [collection |-> collection, raised |-> FALSE]

\* requests the running server serves
RequestKinds == {"ingest", "retrieve", "answer"}

\* the process starts: lifespan() runs validate_or_exit() and yields, or
\* validate_or_exit() ends the process with sys.exit(1)
AppStart ==
    /\ app.pc \in {"stopped", "exited"}
    /\ app.starts < MaxStarts
    /\ \E s \in Settings :
         app' = [app EXCEPT
                   !.pc = IF ValidateConfiguration(s) = {} THEN "serving" ELSE "exited",
                   !.settings = s,
                   !.found = app.collection,
                   !.checks = 0,
                   !.served = {},
                   !.starts = @ + 1]
    /\ UNCHANGED <<sel, emb, rer, qex, rl, chk, ingVars, retVars, tutVars>>

\* the running server serves a request
AppServe ==
    /\ app.pc = "serving"
    /\ \E kind \in RequestKinds : app' = [app EXCEPT !.served = @ \cup {kind}]
    /\ UNCHANGED <<sel, emb, rer, qex, rl, chk, ingVars, retVars, tutVars>>

\* the server shuts down (lifespan after the yield)
AppStop ==
    /\ app.pc = "serving"
    /\ app' = [app EXCEPT !.pc = "stopped"]
    /\ UNCHANGED <<sel, emb, rer, qex, rl, chk, ingVars, retVars, tutVars>>

\* scripts/init_qdrant.py is run under some settings:
\* qdrant_client.ensure_collection_exists()
InitQdrant ==
    /\ app.scripts < MaxStarts
    /\ \E s \in Settings :
         LET done == EnsureCollectionExists(app.collection, s)
         IN  app' = [app EXCEPT !.collection = done.collection,
                                !.script = IF done.raised THEN "raised" ELSE "done",
                                !.scripts = @ + 1]
    /\ UNCHANGED <<sel, emb, rer, qex, rl, chk, ingVars, retVars, tutVars>>

AppInit ==
    /\ IngestIdle
    /\ USE_QDRANT
    /\ RetrievalIdle
    /\ TutorIdle
    /\ SelectorIdle
    /\ EmbedIdle
    /\ ServicesIdle

AppNext ==
    \/ AppStart
    \/ AppServe
    \/ AppStop
    \/ InitQdrant

SpecApp == AppInit /\ [][AppNext]_vars

(***************************************************************************)
(* RateLimiter and RateLimitMiddleware (middleware/rate_limiting.py).      *)
(***************************************************************************)
\* the endpoints RATE_LIMITS names
ConfiguredPaths ==
    {"/api/v1/tutor/ask", "/api/v1/ingestion/ingest", "/api/v1/auth/login",
     "/api/v1/auth/register"}

\* RATE_LIMITS.get(request.url.path, RATE_LIMITS["default"])
RateLimitConfig(path) ==
    CASE path = "/api/v1/tutor/ask" -> [limit |-> 60, window |-> 60]
      [] path = "/api/v1/ingestion/ingest" -> [limit |-> 10, window |-> 3600]
      [] path = "/api/v1/auth/login" -> [limit |-> 5, window |-> 60]
      [] path = "/api/v1/auth/register" -> [limit |-> 3, window |-> 3600]
      [] OTHER -> [limit |-> 100, window |-> 60]

\* the paths of the requests of the model
RequestPaths == {"/api/v1/auth/login", "/api/v1/auth/register", "/health"}

\* seconds the clock (time.time()) advances by between requests
ClockSteps == {30, 61}

\* [ts for ts in self.requests[key] if ts > window_start]
RECURSIVE CleanOld(_, _)
CleanOld(timestamps, window_start) ==
    IF timestamps = <<>> THEN <<>>
    ELSE IF Head(timestamps) > window_start
         THEN <<Head(timestamps)>> \o CleanOld(Tail(timestamps), window_start)
         ELSE CleanOld(Tail(timestamps), window_start)

\* RateLimiter.is_allowed(key, limit, window_seconds) at time now, under
\* the lock of the key: the verdict, retry_after (0: None) and the list
\* self.requests[key] is left with
IsAllowed(timestamps, limit, window_seconds, now) ==
    LET cleaned == CleanOld(timestamps, now - window_seconds)
    IN  IF Len(cleaned) >= limit
        THEN [allowed |-> FALSE,
              retry_after |-> (cleaned[1] + window_seconds - now) + 1,
              timestamps |-> cleaned]
        ELSE [allowed |-> TRUE, retry_after |-> 0,
              timestamps |-> Append(cleaned, now)]

\* RateLimitMiddleware.dispatch for a request of key to path
Dispatch(key, path) ==
    LET config == RateLimitConfig(path)
        verdict == IsAllowed(rl.requests[key], config.limit, config.window, rl.now)
    IN  IF path \in {"/health", "/docs", "/openapi.json", "/redoc"}
        THEN rl' = [rl EXCEPT !.status = 200, !.retry_after = 0,
                              !.dispatched = @ + 1]
        ELSE IF ~verdict.allowed
        THEN rl' = [rl EXCEPT !.requests[key] = verdict.timestamps,
                              !.status = 429,
                              !.retry_after = verdict.retry_after,
                              !.dispatched = @ + 1]
        ELSE rl' = [rl EXCEPT !.requests[key] = verdict.timestamps,
                              !.allowed = Append(@, [key |-> key, path |-> path,
                                                     at |-> rl.now]),
                              !.status = 200,
                              !.retry_after = 0,
                              !.dispatched = @ + 1]

\* a request arrives at the middleware
RateLimitRequest ==
    /\ rl.dispatched < MaxDispatches
    /\ \E key \in RateLimitKeys, path \in RequestPaths : Dispatch(key, path)
    /\ UNCHANGED <<sel, emb, rer, qex, app, chk, ingVars, retVars, tutVars>>

\* time passes
RateLimitTick ==
    /\ \E d \in ClockSteps :
         /\ rl.now + d <= MaxTime
         /\ rl' = [rl EXCEPT !.now = @ + d]
    /\ UNCHANGED <<sel, emb, rer, qex, app, chk, ingVars, retVars, tutVars>>

RateLimitInit ==
    /\ IngestIdle
    /\ USE_QDRANT
    /\ RetrievalIdle
    /\ TutorIdle
    /\ SelectorIdle
    /\ EmbedIdle
    /\ ServicesIdle

RateLimitNext ==
    \/ RateLimitRequest
    \/ RateLimitTick

SpecRateLimit == RateLimitInit /\ [][RateLimitNext]_vars

(***************************************************************************)
(* SlideAwareChunker (services/chunker.py), one slide at a time; texts are *)
(* tuples of characters.                                                   *)
(***************************************************************************)
NewLine == "\n"

\* str.split(sep) for a non-empty separator: the pieces between the
\* occurrences of sep, found from the left; always at least one piece
RECURSIVE SplitOnFrom(_, _, _, _)
SplitOnFrom(s, sep, piece, pieces) ==
    IF s = <<>> THEN Append(pieces, piece)
    ELSE IF StartsWith(s, sep)
         THEN SplitOnFrom(SubSeq(s, Len(sep) + 1, Len(s)), sep, <<>>, Append(pieces, piece))
         ELSE SplitOnFrom(Tail(s), sep, Append(piece, Head(s)), pieces)

SplitOn(s, sep) == SplitOnFrom(s, sep, <<>>, <<>>)

\* sep.join(pieces)
RECURSIVE JoinWith(_, _)
JoinWith(pieces, sep) ==
    IF pieces = <<>> THEN <<>>
    ELSE IF Len(pieces) = 1 THEN pieces[1]
    ELSE pieces[1] \o sep \o JoinWith(Tail(pieces), sep)

\* _is_bullet_line(line)
IsBulletLine(line) ==
    LET \* the ASCII ones of the list bullet_markers
        bullet_markers == {"-", "*"}
        isdigit(c) == c \in {"0", "1", "2", "3", "4", "5", "6", "7", "8", "9"}
    IN  \/ line # <<>> /\ isdigit(line[1]) /\ Len(line) > 1 /\ line[2] \in {".", ")", ":"}
        \/ line # <<>> /\ line[1] \in bullet_markers

\* _build_context_prefix(slide) for slide 1; title <<>> is no title
BuildContextPrefix(title) ==
    (IF title # <<>>
     THEN <<"[", "S", "l", "i", "d", "e", " ", "1", ":", " ">> \o title \o <<"]">>
     ELSE <<"[", "S", "l", "i", "d", "e", " ", "1", "]">>)
    \o <<NewLine, NewLine>>

\* _split_preserving_bullets: the loop over the lines, with the result so
\* far and the bullet group being collected
RECURSIVE PreserveBulletsLoop(_, _, _)
PreserveBulletsLoop(lines, result, current_group) ==
    IF lines = <<>>
    THEN IF current_group # <<>>
         THEN Append(result, JoinWith(current_group, <<NewLine>>))
         ELSE result
    ELSE LET line == Strip(Head(lines))
         IN  IF line = <<>>
             THEN PreserveBulletsLoop(Tail(lines), result, current_group)
             ELSE IF IsBulletLine(line)
             THEN PreserveBulletsLoop(Tail(lines), result, Append(current_group, line))
             ELSE PreserveBulletsLoop(
                      Tail(lines),
                      Append(IF current_group # <<>>
                             THEN Append(result, JoinWith(current_group, <<NewLine>>))
                             ELSE result,
                             line),
                      <<>>)

\* the lines the chunker works on: line.strip() of each line, empty ones
\* dropped
RECURSIVE StrippedLines(_)
StrippedLines(lines) ==
    IF lines = <<>> THEN <<>>
    ELSE IF Strip(Head(lines)) = <<>> THEN StrippedLines(Tail(lines))
    ELSE <<Strip(Head(lines))>> \o StrippedLines(Tail(lines))

\* every line an item of its own, bullet runs not collected
SplitPreservingBullets_LineByLine(text) ==
    StrippedLines(SplitOn(text, <<NewLine>>))

\* _split_preserving_bullets(text)
SplitPreservingBullets(text) ==
    PreserveBulletsLoop(SplitOn(text, <<NewLine>>), <<>>, <<>>)

\* _split_into_paragraphs: the loop over text.split("\n\n")
RECURSIVE ParagraphsLoop(_, _, _)
ParagraphsLoop(paragraphs, result, max_chunk_chars) ==
    IF paragraphs = <<>> THEN result
    ELSE LET para == Strip(Head(paragraphs))
         IN  IF para = <<>>
             THEN ParagraphsLoop(Tail(paragraphs), result, max_chunk_chars)
             ELSE IF Len(para) <= max_chunk_chars
             THEN ParagraphsLoop(Tail(paragraphs), Append(result, para), max_chunk_chars)
             ELSE ParagraphsLoop(Tail(paragraphs),
                                 result \o SplitPreservingBullets(para),
                                 max_chunk_chars)

SplitIntoParagraphs(text, max_chunk_chars) ==
    ParagraphsLoop(SplitOn(text, <<NewLine, NewLine>>), <<>>, max_chunk_chars)

\* ChunkData(chunk_index, text, ...)
ChunkData(chunk_index, text) == [chunk_index |-> chunk_index, text |-> text]

\* _split_long_slide: the loop over the paragraphs, with current_chunk_text
\* and the chunks so far, then the last chunk
RECURSIVE LongSlideLoop(_, _, _, _)
LongSlideLoop(c, paragraphs, current_chunk_text, chunks) ==
    IF paragraphs = <<>>
    THEN IF Strip(current_chunk_text) # <<>>
         THEN Append(chunks, ChunkData(Len(chunks), Strip(current_chunk_text)))
         ELSE chunks
    ELSE LET para == Strip(Head(paragraphs))
             test_text == IF current_chunk_text # <<>>
                          THEN current_chunk_text \o <<NewLine, NewLine>> \o para
                          ELSE para
         IN  IF para = <<>>
             THEN LongSlideLoop(c, Tail(paragraphs), current_chunk_text, chunks)
             ELSE IF Len(test_text) > c.max_chunk_chars /\ current_chunk_text # <<>>
             THEN LongSlideLoop(
                      c, Tail(paragraphs),
                      IF c.include_title_in_chunk
                      THEN BuildContextPrefix(c.title) \o para ELSE para,
                      Append(chunks, ChunkData(Len(chunks), Strip(current_chunk_text))))
             ELSE LongSlideLoop(c, Tail(paragraphs), test_text, chunks)

SplitLongSlide(c) ==
    LongSlideLoop(c, SplitIntoParagraphs(c.text, c.max_chunk_chars),
                  IF c.include_title_in_chunk THEN BuildContextPrefix(c.title) ELSE <<>>,
                  <<>>)

\* _chunk_slide for the slide and the chunker settings held by c
ChunkSlide(c) ==
    LET context_prefix == BuildContextPrefix(c.title)
        full_text == Strip(c.text)
        total_text == IF c.include_title_in_chunk
                      THEN context_prefix \o full_text ELSE full_text
    IN  IF full_text = <<>>
        THEN IF c.title # <<>>
             THEN <<ChunkData(0, Strip(context_prefix))>>
             ELSE <<>>
        ELSE IF Len(total_text) <= c.max_chunk_chars
        THEN <<ChunkData(0, total_text)>>
        ELSE SplitLongSlide(c)

\* the characters of slide bodies and the bodies
BodyChars == {"x", "-", NewLine}
SlideTexts == UNION {[1..n -> BodyChars] : n \in 0..MaxBodyLen}

\* chunkers as constructed (min_chunk_chars, max_chunk_chars,
\* include_title_in_chunk) with the title of the slide they get
ChunkerSetups ==
    {[min_chunk_chars |-> 2, max_chunk_chars |-> 4, include_title_in_chunk |-> FALSE,
      title |-> <<>>],
     [min_chunk_chars |-> 2, max_chunk_chars |-> 4, include_title_in_chunk |-> FALSE,
      title |-> <<"T">>],
     [min_chunk_chars |-> 7, max_chunk_chars |-> 14, include_title_in_chunk |-> TRUE,
      title |-> <<>>],
     [min_chunk_chars |-> 9, max_chunk_chars |-> 18, include_title_in_chunk |-> TRUE,
      title |-> <<"T">>]}

\* chunk_slides([slide]) on a chunker
ChunkSlides ==
    /\ chk.pc = "idle"
    /\ \E s \in ChunkerSetups, text \in SlideTexts :
         LET c == [chk EXCEPT !.min_chunk_chars = s.min_chunk_chars,
                              !.max_chunk_chars = s.max_chunk_chars,
                              !.include_title_in_chunk = s.include_title_in_chunk,
                              !.title = s.title,
                              !.text = text]
         IN  chk' = [c EXCEPT !.pc = "returned", !.chunks = ChunkSlide(c)]
    /\ UNCHANGED <<sel, emb, rer, qex, app, rl, ingVars, retVars, tutVars>>

ChunkerInit ==
    /\ IngestIdle
    /\ USE_QDRANT
    /\ RetrievalIdle
    /\ TutorIdle
    /\ SelectorIdle
    /\ EmbedIdle
    /\ ServicesIdle

ChunkerNext == ChunkSlides

SpecChunker == ChunkerInit /\ [][ChunkerNext]_vars

(***************************************************************************)
(* Properties of ingestion.                                                *)
(***************************************************************************)
Returned(p) == ing[p].pc = "returned"
Ended(p) == ing[p].pc \in {"returned", "raised"}
Skipped(p) == Returned(p) /\ ing[p].metrics.success /\ ing[p].metrics.error = "skip"
ChunksOf(doc) == {c \in chunkRows : c.document_id = doc}

\* the call of p ended with success, the skip marker and the id of the one
\* document of its source_uri
SkippedToExisting(p) ==
    /\ Skipped(p)
    /\ DocsBySourceUri(ing[p].req.source_uri) =
          {d \in documents : d.id = ing[p].metrics.document_id}
    /\ ing[p].metrics.document_id \in completed

\* C4 as stated: after one successful ingest of a source_uri, every further
\* sequential ingest call with that source_uri ends with success, the skip
\* marker and the existing document id.
C4_EveryFurtherCallSkips ==
    \A p \in Procs : (ing[p].afterSuccess /\ Ended(p)) => SkippedToExisting(p)

\* C4 (amended): after one successful ingest of a source_uri, every further
\* sequential ingest call with that source_uri whose course_id exists ends
\* with success, the skip marker and the existing document id; no step of a
\* further call changes the persisted documents, chunks or vector-store
\* points, and exactly one document exists for the source_uri.
C4_IdempotentIngest ==
    /\ [](\A p \in Procs :
            (ing[p].afterSuccess /\ Ended(p) /\ ing[p].req.course_id \in Courses)
                => SkippedToExisting(p))
    /\ [](\A d \in documents :
            d.id \in completed => Cardinality(DocsBySourceUri(d.source_uri)) = 1)
    /\ [][(\E p \in Procs : ing[p].afterSuccess /\ Active(p))
            => UNCHANGED <<documents, chunkRows, points>>]_vars

\* a further call for an ingested source_uri has returned the skip
C4_Witness ==
    \E p \in Procs :
        /\ ing[p].afterSuccess
        /\ Skipped(p)
        /\ ChunksOf(ing[p].metrics.document_id) # {}
        /\ points # {}

\* C5: once ingest has raised after creating its Document, no Document row
\* and no Chunk row created by that run remains persisted.
C5_FullRollback ==
    \A p \in Procs :
        (ing[p].pc = "raised" /\ ing[p].document # Placeholder)
            => /\ \A d \in documents : d.id # ing[p].document
               /\ ChunksOf(ing[p].document) = {}

\* C6: at most one Document row is ever persisted for a source_uri, in every
\* interleaving of concurrent ingest calls.
C6_OneDocumentPerSourceUri ==
    \A u \in Uris : Cardinality(DocsBySourceUri(u)) <= 1

\* C7: the skip outcome is returned only when the existing document of the
\* source_uri belongs to an ingestion that completed; after a failed ingest
\* the next call runs the pipeline from scratch.
C7_SkipOnlyAfterCompletedIngest ==
    \A p \in Procs : Skipped(p) => ing[p].metrics.document_id \in completed

(***************************************************************************)
(* Properties of retrieval.                                                *)
(***************************************************************************)
\* the actor of the request in flight is not enrolled in the requested course
NotEnrolled ==
    ~\E e \in enrollments :
        e.student_id = ret.req.student_id /\ e.course_id = ret.req.course_id

\* no provider call was issued, no chunk is returned, and once the call has
\* ended it has ended with access-denied
DeniedBeforeAnyCall ==
    /\ ret.embedCalls = 0
    /\ ret.searchCalls = 0
    /\ ret.hits = {}
    /\ ret.chunks = {}
    /\ ret.pc # "returned"
    /\ RetrieveEnded => ret.outcome = "access_denied"

\* C1 as stated: for an actor who is not enrolled, retrieve fails with
\* access-denied for any non-empty query text, with no embedding call, no
\* search call and no chunk.
C1_DeniedForAnyNonEmptyQuery ==
    (ret.pc # "idle" /\ NotEnrolled /\ ret.req.query # <<>>) => DeniedBeforeAnyCall

\* C1 (amended): for an actor who is not enrolled, retrieve fails with
\* access-denied for any query text that is not empty or whitespace-only,
\* with no embedding call, no search call and no chunk; a whitespace-only
\* query is rejected as invalid input before the enrollment check, also
\* with no provider call.
C1_EnrollmentGate ==
    /\ (ret.pc # "idle" /\ NotEnrolled /\ Strip(ret.req.query) # <<>>)
            => DeniedBeforeAnyCall
    /\ (ret.pc # "idle" /\ NotEnrolled)
            => (ret.embedCalls = 0 /\ ret.searchCalls = 0 /\ ret.chunks = {})

\* a student enrolled in another course only, and another student enrolled
\* in the requested course, was denied while the course has indexed points
C1_Witness ==
    /\ ret.pc = "raised"
    /\ ret.outcome = "access_denied"
    /\ NotEnrolled
    /\ \E e \in enrollments : e.course_id = ret.req.course_id
    /\ \E e \in enrollments : e.student_id = ret.req.student_id
    /\ \E pt \in points : pt.course_id = Str(ret.req.course_id)

\* the points of the store a returned chunk stands for
PointsOf(chunk) == {pt \in points : pt.chunk_id = chunk.chunk_id}

\* C2: every chunk retrieve returns for a request scoped to course A is a
\* point of course A; the course_id = A condition is in the filter handed
\* to the search call, every hit the store transmits is of course A, and
\* the returned chunks are exactly the transmitted hits.
C2_TenantIsolation ==
    ret.pc = "returned" =>
        /\ \E i \in 1..Len(ret.filter) :
              ret.filter[i] = [key |-> "course_id", value |-> Str(ret.req.course_id)]
        /\ \A h \in ret.hits : h.course_id = Str(ret.req.course_id)
        /\ ret.chunks = {ToRetrievedChunk(h) : h \in ret.hits}
        /\ \A c \in ret.chunks :
              /\ PointsOf(c) # {}
              /\ \A pt \in PointsOf(c) : pt.course_id = Str(ret.req.course_id)
              /\ \A row \in chunkRows :
                    Str(row.id) = c.chunk_id => row.course_id = ret.req.course_id

\* a chunk was returned while a point of another course met every other
\* condition of the request
C2_Witness ==
    /\ ret.pc = "returned"
    /\ ret.chunks # {}
    /\ \E pt \in points :
          /\ pt.course_id # Str(ret.req.course_id)
          /\ Matches(pt, BuildFilter_NoCourse(ret.req.course_id,
                                              ret.req.exclude_assignments,
                                              ret.req.session_filter))

\* C3: with exclude_assignment_content set, no returned chunk has
\* assignment_allowed = false, neither in its point nor in its chunk row.
C3_AssignmentSafety ==
    (ret.pc = "returned" /\ ret.req.exclude_assignments) =>
        \A c \in ret.chunks :
            /\ \A pt \in PointsOf(c) : pt.assignment_allowed
            /\ \A row \in chunkRows : Str(row.id) = c.chunk_id => row.assignment_allowed

\* a chunk was returned in safe mode while a point of the same course
\* ingested with assignment_allowed = false met the other conditions
C3_Witness ==
    /\ ret.pc = "returned"
    /\ ret.req.exclude_assignments
    /\ ret.chunks # {}
    /\ \E pt \in points :
          /\ ~pt.assignment_allowed
          /\ Matches(pt, BuildFilter_NoAssignment(ret.req.course_id,
                                                  ret.req.exclude_assignments,
                                                  ret.req.session_filter))

(***************************************************************************)
(* Properties of the answer service.                                       *)
(***************************************************************************)
IsPrefix(a, b) == Len(a) <= Len(b) /\ SubSeq(b, 1, Len(a)) = a

AnswerPaths ==
    {<<"START", "VALIDATE", "GENERATE", "DONE">>,
     <<"START", "VALIDATE", "NO_CONTEXT", "DONE">>}

\* C8: every answer request moves along START -> VALIDATE ->
\* {GENERATE | NO_CONTEXT} -> DONE; the validation call is issued exactly
\* once and has returned or failed before any generation call is issued,
\* and a request that ends normally has gone through the whole path.
C8_AnswerStateMachine ==
    tut.pc # "idle" =>
        /\ \E path \in AnswerPaths : IsPrefix(tut.phases, path)
        /\ tut.valCalls <= 1
        /\ tut.genCalls <= 1
        /\ tut.genCalls > 0 => (tut.valCalls = 1 /\ tut.valDone)
        /\ tut.pc \in {"generate", "generating", "log"} => (tut.valCalls = 1 /\ tut.valDone)
        /\ (tut.pc = "ended" /\ tut.outcome = "ok") =>
              (tut.phases \in AnswerPaths /\ tut.valCalls = 1 /\ tut.genCalls = 1)

\* an answer with nothing retrieved ended normally after validation and
\* generation
C8_Witness ==
    /\ tut.pc = "ended"
    /\ tut.outcome = "ok"
    /\ tut.nchunks = 0
    /\ tut.phases = <<"START", "VALIDATE", "GENERATE", "DONE">>

EventTypes(events) == [i \in 1..Len(events) |-> events[i].type]

CountType(events, type) == Cardinality({i \in 1..Len(events) : events[i].type = type})

\* C9: a successful answer_stream emits exactly one metadata event first,
\* then zero or more text events, then exactly one final done event; at no
\* time does a text event precede the metadata event, and the validation
\* call has been issued and has finished before the first text event.
C9_StreamingOrder ==
    Streaming =>
        /\ \A i \in 1..Len(tut.events) :
              tut.events[i].type = "chunk" =>
                  /\ i > 1
                  /\ tut.events[1].type = "metadata"
                  /\ tut.valCalls = 1
                  /\ tut.valDone
        /\ CountType(tut.events, "metadata") <= 1
        /\ CountType(tut.events, "done") <= 1
        /\ (tut.pc = "ended" /\ tut.outcome = "ok") =>
              /\ Len(tut.events) >= 2
              /\ tut.events[1].type = "metadata"
              /\ tut.events[Len(tut.events)].type = "done"
              /\ \A i \in 2..(Len(tut.events) - 1) : tut.events[i].type = "chunk"

\* a stream ended normally after metadata, two text events and done
C9_Witness ==
    /\ Streaming
    /\ tut.pc = "ended"
    /\ tut.outcome = "ok"
    /\ EventTypes(tut.events) = <<"metadata", "chunk", "chunk", "done">>

\* what a YES verdict gives for the request in flight
YesContext == HasCourseContext(ValidationVerdict(FALSE, <<"Y", "E", "S">>), tut.nchunks)

\* C10: when the validation call raises, the request is treated as
\* answerable: it neither fails nor ends there, it goes on to the
\* generation call with the prompt, label and score a YES verdict gives, in
\* respond and in respond_stream.
C10_ValidationFailsOpen ==
    (tut.valDone /\ tut.valRaised) =>
        /\ tut.can_answer
        /\ tut.has_course_context = YesContext
        /\ tut.genCalls = 0 =>
              (tut.pc \in {"metadata", "generate"} /\ tut.outcome = "none")
        /\ tut.genCalls > 0 => tut.prompt = PromptFor(YesContext)
        /\ tut.confidence \in {"none", ConfidenceFor(YesContext)}
        /\ tut.confidence # "no_context"
        /\ \A i \in 1..Len(tut.events) :
              tut.events[i].type = "metadata" =>
                  /\ tut.events[i].confidence = ConfidenceFor(YesContext)
                  /\ tut.events[i].confidence_score =
                        ConfidenceScoreFor(YesContext, tut.nchunks)

\* the validation call raised, chunks had been retrieved, and the answer
\* was generated from the course prompt
C10_Witness ==
    /\ tut.valRaised
    /\ tut.nchunks > 0
    /\ tut.pc = "ended"
    /\ tut.outcome = "ok"
    /\ tut.prompt = "course"
    /\ tut.confidence = "validated"

\* the validation call returned a text and the verdict was NO
ValidationSaidNo == tut.valDone /\ ~tut.valRaised /\ ~tut.can_answer

\* respond() has returned its TutorResponse to the caller
Responded == tut.mode = "respond" /\ tut.pc = "ended" /\ tut.outcome = "ok"

\* the metadata events respond_stream() has yielded
MetadataEvents == {tut.events[i] : i \in {j \in 1..Len(tut.events) : tut.events[j].type = "metadata"}}

\* C11: every response produced when validation answered NO, or labelled
\* no_context, has confidence_score 0, as a respond() result and as the
\* metadata event of respond_stream().
C11_ZeroConfidenceWithoutContext ==
    /\ (Responded /\ (ValidationSaidNo \/ tut.confidence = "no_context"))
          => tut.confidence_score = 0
    /\ \A e \in MetadataEvents :
          (ValidationSaidNo \/ e.confidence = "no_context") => e.confidence_score = 0

\* C12: the confidence_score of every answer, the respond() result and the
\* metadata event of respond_stream(), is an integer from 0 to 100, for
\* every number of retrieved sources and every validation outcome.
C12_ConfidenceBounds ==
    /\ tut.confidence_score \in 0..100
    /\ \A e \in MetadataEvents : e.confidence_score \in 0..100

\* a validated answer with more than three sources was returned with the
\* capped score
C12_Witness ==
    /\ Responded
    /\ tut.has_course_context
    /\ tut.sources > 3
    /\ tut.confidence_score = 100

\* C13: when validation answers NO and the answer is the general-knowledge
\* fallback, the response and the metadata event cite no course source,
\* even if chunks were retrieved.
C13_FallbackCitesNoSources ==
    /\ (Responded /\ ValidationSaidNo) => tut.sources = 0
    /\ \A e \in MetadataEvents : ValidationSaidNo => e.sources = 0

\* C14: no analytics row written by the answer service holds raw question
\* text, for any question, those of five words or fewer included.
C14_AnalyticsPrivacy ==
    /\ tut.logged => ~TextInfix(tut.row.query_topic, tut.question)
    /\ \A a \in analytics : \A q \in Questions : ~TextInfix(a.query_topic, q)

\* the generation call of the request in flight failed
GenerationFailed ==
    tut.pc = "ended" /\ tut.failedAt = "generating" /\ tut.genCalls = 1

\* ask_tutor: except Exception -> HTTPException(500, generic detail);
\* generate_stream: every event of respond_stream() is forwarded as it is
ErrorReachingCaller ==
    IF tut.mode = "respond"
    THEN GenericDetail
    ELSE tut.events[Len(tut.events)].data

\* C15: when a provider call fails during respond() or respond_stream(),
\* what reaches the caller is the fixed generic message, without the text
\* of the underlying exception.
C15_NoLeakOnUpstreamFailure ==
    GenerationFailed =>
        /\ ErrorReachingCaller = GenericDetail
        /\ ErrorReachingCaller # ExceptionText

\* t begins, after leading whitespace, with the letters y, e, s in either case
BeginsWithYes(t) ==
    \E k \in 0..Len(t) :
        /\ \A i \in 1..k : IsSpace(t[i])
        /\ Len(t) >= k + 3
        /\ t[k + 1] \in {"Y", "y"}
        /\ t[k + 2] \in {"E", "e"}
        /\ t[k + 3] \in {"S", "s"}

\* C19 as stated: the VALIDATE step yields YES if and only if the response
\* text literally begins with "YES".
C19_LiteralYes ==
    (tut.valDone /\ ~tut.valRaised) =>
        (tut.can_answer <=> StartsWith(tut.valText, <<"Y", "E", "S">>))

\* C19 (amended): the VALIDATE step yields YES if and only if the response
\* text, with surrounding whitespace removed and letters upper-cased, begins
\* with "YES"; every other response text is treated as NO.
C19_VerdictParsing ==
    (tut.valDone /\ ~tut.valRaised) => (tut.can_answer <=> BeginsWithYes(tut.valText))

\* the lower-case answer "yes" was taken as YES and the answer was returned
C19_Witness ==
    /\ tut.valDone
    /\ ~tut.valRaised
    /\ tut.valText = <<"y", "e", "s">>
    /\ tut.can_answer
    /\ tut.pc = "ended"
    /\ tut.outcome = "ok"

(***************************************************************************)
(* Properties of the query pipeline.                                       *)
(***************************************************************************)
\* rows of table courses: course_type, and total_chunks, which is 0 from
\* the creation of the course on (no ingest updates it)
CourseRow(course_id) ==
    [id |-> course_id,
     course_type |-> IF course_id = "courseA" THEN "micro" ELSE "certification",
     total_chunks |-> 0]

\* the positions of a call in the calls of the retrieval in flight
CallsAt(name) == {i \in 1..Len(ret.calls) : ret.calls[i] = name}

\* the strategy the selector gives for the course of the request in flight
SelectedStrategy ==
    GetStrategy(CourseRow(ret.req.course_id).course_type,
                CourseRow(ret.req.course_id).total_chunks)

\* C16: in every answered query the strategy is selected from the course's
\* (course_type, total_chunks) after the enrollment check and before the
\* vector search, the vector store is asked for candidate_count candidates,
\* and reranking, when the strategy enables it, runs after the search and
\* before the retrieval result goes to the validation step.
C16_QueryPipelineOrder ==
    ret.pc = "returned" =>
        /\ \E i \in CallsAt("get_strategy") :
              /\ \A j \in CallsAt("is_enrolled") : j < i
              /\ \A j \in CallsAt("search") : i < j
        /\ ret.limit = SelectedStrategy.initial_top_k
        /\ SelectedStrategy.use_reranking =>
              \E i \in CallsAt("rerank") : \A j \in CallsAt("search") : j < i

(***************************************************************************)
(* Properties of the strategy selector.                                    *)
(***************************************************************************)
\* C17: for every course type and every total_chunks >= 0 get_strategy
\* returns the table: small -> 5 candidates, 5 final, no rerank, no
\* expansion, no hierarchical filter; medium -> 10 candidates above 1000
\* chunks and 5 otherwise, 5 final, rerank exactly above 1000 chunks, no
\* expansion; large -> 10 candidates up to 2000 chunks, 15 up to 5000, 20
\* above, 5 final, rerank and expansion.
C17_StrategyTable ==
    (sel.op = "get_strategy" /\ sel.course_type \in CourseTypes) =>
        LET c == sel.config
            n == sel.total_chunks
        IN  /\ sel.pc = "returned"
            /\ c.course_type = sel.course_type
            /\ c.total_chunks = n
            /\ c.final_top_k = 5
            /\ sel.course_type = "micro" =>
                  /\ c.initial_top_k = 5
                  /\ ~c.use_reranking
                  /\ ~c.use_query_expansion
                  /\ ~c.use_hierarchical_filter
            /\ sel.course_type = "standard" =>
                  /\ (n <= 1000 => c.initial_top_k = 5)
                  /\ (n >= 1001 => c.initial_top_k = 10)
                  /\ (c.use_reranking <=> n >= 1001)
                  /\ ~c.use_query_expansion
            /\ sel.course_type = "certification" =>
                  /\ (n <= 2000 => c.initial_top_k = 10)
                  /\ (n >= 2001 /\ n <= 5000 => c.initial_top_k = 15)
                  /\ (n >= 5001 => c.initial_top_k = 20)
                  /\ c.use_reranking
                  /\ c.use_query_expansion

\* the strategy of a large course of exactly 2000 chunks was returned
C17_Witness ==
    /\ sel.pc = "returned"
    /\ sel.op = "get_strategy"
    /\ sel.course_type = "certification"
    /\ sel.total_chunks = 2000
    /\ sel.config.initial_top_k = 10

\* the number of whitespace-separated words of q: the positions where a
\* word starts
WordCount(q) ==
    Cardinality({i \in 1..Len(q) : ~IsSpace(q[i]) /\ (i = 1 \/ IsSpace(q[i - 1]))})

\* C18: should_expand_query is true under the large-corpus policy exactly
\* for queries of fewer than 8 words, under the medium-corpus policy exactly
\* for queries of fewer than 5 words, and never under the small-corpus
\* policy.
C18_ExpansionEligibility ==
    (sel.op = "should_expand_query" /\ sel.course_type \in CourseTypes) =>
        /\ sel.pc = "returned"
        /\ sel.course_type = "certification" => (sel.expand <=> WordCount(sel.query) < 8)
        /\ sel.course_type = "standard" => (sel.expand <=> WordCount(sel.query) < 5)
        /\ sel.course_type = "micro" => ~sel.expand

\* a query of exactly eight words was not expanded under the large-corpus
\* policy
C18_Witness ==
    /\ sel.pc = "returned"
    /\ sel.op = "should_expand_query"
    /\ sel.course_type = "certification"
    /\ WordCount(sel.query) = 8
    /\ ~sel.expand

C21_BatchFallback ==
    /\ \A k \in 1..Len(emb.batchCalls) :
          /\ Len(emb.batchCalls[k]) <= BatchSize
          /\ emb.batchCalls[k] = SubBatch(emb.texts, (k - 1) * BatchSize)
    /\ (emb.pc = "raised" /\ emb.batchCalls # <<>>) =>
          /\ emb.itemCalls # <<>>
          /\ emb.itemCalls[Len(emb.itemCalls)] \in
                {emb.batch[j] : j \in 1..Len(emb.batch)}

\* C30: when ingest, with vector storage enabled, has returned success
\* without the skip marker, the points upserted for the document, its
\* persisted chunks and embeddings_generated are equal in number, and every
\* persisted chunk of the document has its own id as embedding_id and a
\* point of that id in the vector store.
C30_SuccessMeansFullyIndexed ==
    \A p \in Procs :
        (USE_QDRANT /\ ing[p].pc = "returned" /\ ing[p].metrics.success /\ ~Skipped(p)) =>
            LET rows == ChunksOf(ing[p].metrics.document_id)
                stored == {q \in points : \E c \in rows : q.id = Str(c.id)}
            IN  /\ Cardinality(stored) = Cardinality(rows)
                /\ Cardinality(rows) = ing[p].metrics.embeddings_generated
                /\ \A c \in rows :
                      /\ c.embedding_id = c.id
                      /\ \E q \in points : q.id = Str(c.id)

(***************************************************************************)
(* Properties of the event stream of respond_stream.                       *)
(***************************************************************************)
\* C29: in a respond_stream run a done or error event is the last event of
\* the stream (nothing of any type follows it, so there is never a done and
\* an error both), and a run that has ended has emitted one.
C29_SingleTerminalEvent ==
    Streaming =>
        /\ \A i \in 1..Len(tut.events) :
              tut.events[i].type \in {"done", "error"} => i = Len(tut.events)
        /\ tut.pc = "ended" =>
              /\ tut.events # <<>>
              /\ tut.events[Len(tut.events)].type \in {"done", "error"}

(***************************************************************************)
(* Properties of the reranker.                                             *)
(***************************************************************************)
\* C24: every rerank call on one instance returns only chunks of that
\* call's own candidate list, each at most once, in descending order of
\* score, and exactly min(top_k, number of candidates) of them.
C24_RerankerOutput ==
    rer.pc = "returned" =>
        /\ \A i \in 1..Len(rer.result) :
              \E j \in 1..Len(rer.chunks) :
                 rer.result[i].chunk_id = rer.chunks[j].chunk_id
        /\ \A i, j \in 1..Len(rer.result) :
              rer.result[i].chunk_id = rer.result[j].chunk_id => i = j
        /\ \A i, j \in 1..Len(rer.result) :
              i < j => rer.result[i].score >= rer.result[j].score
        /\ Len(rer.result) = Min(rer.top_k, Len(rer.chunks))

(***************************************************************************)
(* Properties of query expansion.                                          *)
(***************************************************************************)
\* C25: expand never raises to its caller, whatever the generation call
\* does; it returns the original query with at most two alternate
\* phrasings, and none when generation or the reading of its answer failed.
C25_ExpansionBestEffort ==
    /\ qex.pc # "raised"
    /\ qex.pc = "returned" =>
          /\ qex.result.original = qex.query
          /\ Len(qex.result.expansions) \in 0..2
          /\ qex.failed => qex.result.expansions = <<>>

\* the generation call raised and expand returned the original query alone
C25_Witness ==
    /\ qex.pc = "returned"
    /\ ~qex.hit
    /\ qex.generation.raises
    /\ qex.failed
    /\ qex.result = [original |-> qex.query, expansions |-> <<>>]

(***************************************************************************)
(* Properties of process startup.                                          *)
(***************************************************************************)
\* C26: a process that found, at its start, the collection existing with a
\* dimension other than the configured one is not serving and has served no
\* request; a serving process has run the dimension check once.
C26_DimensionCheckAtStartup ==
    /\ (app.starts > 0 /\ app.found.exists
           /\ app.found.size # VectorSize(app.settings))
          => (app.pc # "serving" /\ app.served = {})
    /\ app.pc = "serving" => app.checks = 1

(***************************************************************************)
(* Properties of rate limiting.                                            *)
(***************************************************************************)
\* C27: for every key and every configured endpoint, the requests of the
\* key to the endpoint that were let through within any window of the
\* endpoint's length number at most the endpoint's limit, whatever other
\* endpoints the key called in between.
C27_RateLimitPerEndpoint ==
    \A i \in 1..Len(rl.allowed) :
        LET r == rl.allowed[i]
            config == RateLimitConfig(r.path)
            inWindow == {j \in 1..i :
                            /\ rl.allowed[j].key = r.key
                            /\ rl.allowed[j].path = r.path
                            /\ rl.allowed[j].at > r.at - config.window}
        IN  r.path \in ConfiguredPaths => Cardinality(inWindow) <= config.limit


(***************************************************************************)
(* Properties of the chunker.                                              *)
(***************************************************************************)
\* the lines of the slide body, as text.split("\n") gives them
BodyLines == SplitOn(chk.text, <<NewLine>>)

\* the first line of a chunk that starts with the slide reference
HeaderLine == Strip(BuildContextPrefix(chk.title))

\* the body lines a chunk holds: its non-empty lines, without the slide
\* reference where the chunker put one in front
ChunkBodyLines(chunk) ==
    LET lines == StrippedLines(SplitOn(chunk.text, <<NewLine>>))
    IN  IF /\ lines # <<>>
           /\ lines[1] = HeaderLine
           /\ chk.include_title_in_chunk \/ Strip(chk.text) = <<>>
        THEN Tail(lines)
        ELSE lines

\* the number of body lines held by the first k chunks
RECURSIVE LinesThrough(_)
LinesThrough(k) ==
    IF k = 0 THEN 0 ELSE LinesThrough(k - 1) + Len(ChunkBodyLines(chk.chunks[k]))

\* the chunks hold the non-empty body lines in order, so the n-th of them is
\* in the first chunk that is not wholly before it
ChunkOfLine(n) == 1 + Cardinality({k \in 1..Len(chk.chunks) : LinesThrough(k) < n})

\* the position of body line i among the non-empty body lines
NonEmptyUpTo(i) == Cardinality({j \in 1..i : Strip(BodyLines[j]) # <<>>})

\* body lines i and i+1 are two consecutive bullet lines
BulletPair(i) ==
    /\ i \in 1..(Len(BodyLines) - 1)
    /\ IsBulletLine(Strip(BodyLines[i]))
    /\ IsBulletLine(Strip(BodyLines[i + 1]))

\* the chunks hold exactly the non-empty body lines, in order
RECURSIVE AllChunkLines(_)
AllChunkLines(k) ==
    IF k = 0 THEN <<>> ELSE AllChunkLines(k - 1) \o ChunkBodyLines(chk.chunks[k])

C23_ChunkSizeWindow ==
    chk.pc = "returned" =>
        \A k \in 1..Len(chk.chunks) :
            /\ Len(chk.chunks[k].text) <= chk.max_chunk_chars
            /\ k < Len(chk.chunks) => Len(chk.chunks[k].text) >= chk.min_chunk_chars

\* C28: no content-free chunks. For a slide with a non-empty body every
\* chunk returned holds at least one line of the body; a chunk of the slide
\* reference alone is returned only for an empty body with a title.
C28_NoContentFreeChunks ==
    (chk.pc = "returned" /\ Strip(chk.text) # <<>>) =>
        \A k \in 1..Len(chk.chunks) :
            /\ ChunkBodyLines(chk.chunks[k]) # <<>>
            /\ chk.chunks[k].text # HeaderLine

====
